---- MODULE Spec2Model ----
(***************************************************************************)
(* Model of the query-understanding service: the /parse handler and its    *)
(* JSON recovery cascade, the override rules, the response model and the   *)
(* Redis-backed query cache.  Python strings are TLA+ strings handled      *)
(* character by character; Python values are tagged records.               *)
(***************************************************************************)
EXTENDS Integers, Sequences, FiniteSets, TLC

(***************************************************************************)
(* Python str primitives                                                   *)
(***************************************************************************)
Ch(s, i) == SubSeq(s, i, i)

StrChars(s) == {Ch(s, i) : i \in 1..Len(s)}

UpperChars == "ABCDEFGHIJKLMNOPQRSTUVWXYZ"

LowerChars == "abcdefghijklmnopqrstuvwxyz"

DigitChars == "0123456789"

\* str.strip() / regex \s whitespace (ASCII)
PyWhitespace == {" ", "\t", "\n", "\r", "\f"}

\* the whitespace json.decoder skips
JsonWhitespace == {" ", "\t", "\n", "\r"}

\* regex class [a-zA-Z0-9_]
IdentChars == StrChars(UpperChars) \cup StrChars(LowerChars) \cup StrChars(DigitChars) \cup {"_"}

LowerCh(c) ==
    IF c \in StrChars(UpperChars)
    THEN Ch(LowerChars, CHOOSE i \in 1..Len(UpperChars) : Ch(UpperChars, i) = c)
    ELSE c

\* the concatenation of parts[lo..hi]
RECURSIVE Join(_, _, _)
Join(parts, lo, hi) ==
    IF lo > hi THEN ""
    ELSE IF lo = hi THEN parts[lo]
    ELSE LET mid == (lo + hi) \div 2 IN Join(parts, lo, mid) \o Join(parts, mid + 1, hi)

\* the least index in i..Len(s) whose character is in class, or Len(s) + 1
NextIn(s, i, class) ==
    LET hits == {j \in i..Len(s) : Ch(s, j) \in class} IN
    IF hits = {} THEN Len(s) + 1 ELSE CHOOSE j \in hits : \A k \in hits : j <= k

\* str.lower()
Lower(s) == Join([i \in 1..Len(s) |-> LowerCh(Ch(s, i))], 1, Len(s))

\* Python's `sub in s`
Contains(s, sub) ==
    \E i \in 1..(Len(s) - Len(sub) + 1) : SubSeq(s, i, i + Len(sub) - 1) = sub

\* str.strip()
Strip(s) ==
    LET keep == {i \in 1..Len(s) : Ch(s, i) \notin PyWhitespace}
    IN IF keep = {} THEN ""
       ELSE LET lo == CHOOSE i \in keep : \A j \in keep : i <= j
                hi == CHOOSE i \in keep : \A j \in keep : i >= j
            IN SubSeq(s, lo, hi)

\* str.replace(old, new) for a one-character old
Replace(s, old, new) ==
    Join([i \in 1..Len(s) |-> IF Ch(s, i) = old THEN new ELSE Ch(s, i)], 1, Len(s))

(***************************************************************************)
(* Python values                                                           *)
(***************************************************************************)
PyNone == [t |-> "none"]

PyStr(s) == [t |-> "str", v |-> s]

PyNum(s) == [t |-> "num", v |-> s]

PyBool(s) == [t |-> "bool", v |-> s]

PyList(items) == [t |-> "list", v |-> items]

\* a dict is its items in insertion order, keys distinct
PyDict(items) == [t |-> "dict", v |-> items]

DictKeys(d) == {d.v[i].k : i \in 1..Len(d.v)}

DictHas(d, key) == key \in DictKeys(d)

DictGet(d, key) ==
    IF DictHas(d, key)
    THEN d.v[CHOOSE i \in 1..Len(d.v) : d.v[i].k = key].v
    ELSE PyNone

\* d[key] = val
DictSet(d, key, val) ==
    IF DictHas(d, key)
    THEN PyDict([i \in 1..Len(d.v) |-> IF d.v[i].k = key THEN [k |-> key, v |-> val] ELSE d.v[i]])
    ELSE PyDict(Append(d.v, [k |-> key, v |-> val]))

\* Python's ==, decided on the type tags first
RECURSIVE PyEq(_, _)
PyEq(a, b) ==
    IF a.t # b.t THEN FALSE
    ELSE CASE a.t \in {"str", "num", "bool"} -> a.v = b.v
           [] a.t = "list" -> /\ Len(a.v) = Len(b.v)
                              /\ \A i \in 1..Len(a.v) : PyEq(a.v[i], b.v[i])
           [] a.t = "dict" -> /\ DictKeys(a) = DictKeys(b)
                              /\ \A key \in DictKeys(a) : PyEq(DictGet(a, key), DictGet(b, key))
           [] OTHER -> TRUE

(***************************************************************************)
(* json.loads (json.decoder / json.scanner of the standard library)        *)
(***************************************************************************)
Fail == [ok |-> FALSE]

Done(val, end) == [ok |-> TRUE, v |-> val, end |-> end]

RECURSIVE SkipWs(_, _)
SkipWs(s, i) == IF i <= Len(s) /\ Ch(s, i) \in JsonWhitespace THEN SkipWs(s, i + 1) ELSE i

RECURSIVE SkipDigits(_, _)
SkipDigits(s, i) == IF i <= Len(s) /\ Ch(s, i) \in StrChars(DigitChars) THEN SkipDigits(s, i + 1) ELSE i

StartsAt(s, i, lit) == i + Len(lit) - 1 <= Len(s) /\ SubSeq(s, i, i + Len(lit) - 1) = lit

JsonEscapes == [c \in {"\"", "\\", "/", "b", "f", "n", "r", "t"} |->
                  CASE c = "b" -> "\f"   \* no backspace literal: any control character stands for it
                    [] c = "f" -> "\f"
                    [] c = "n" -> "\n"
                    [] c = "r" -> "\r"
                    [] c = "t" -> "\t"
                    [] OTHER -> c]

ControlChars == {"\t", "\n", "\r", "\f"}

\* py_scanstring(s, end, strict=True): i is the index after the opening quote
RECURSIVE ScanString(_, _, _)
ScanString(s, i, acc) ==
    LET At(j) ==
          IF j > Len(s) THEN Fail                             \* unterminated string
          ELSE IF Ch(s, j) = "\"" THEN Done(acc \o SubSeq(s, i, j - 1), j + 1)
          ELSE IF Ch(s, j) = "\\"
               THEN IF j + 1 <= Len(s) /\ Ch(s, j + 1) \in DOMAIN JsonEscapes
                    THEN ScanString(s, j + 2, acc \o SubSeq(s, i, j - 1) \o JsonEscapes[Ch(s, j + 1)])
                    ELSE Fail                                 \* invalid \escape
          ELSE Fail                                           \* invalid control character
    IN At(NextIn(s, i, {"\"", "\\"} \cup ControlChars))

\* NUMBER_RE = (-?(?:0|[1-9]\d*))(\.\d+)?([eE][-+]?\d+)? matched at i; 0 if no match
NumberEnd(s, i) ==
    LET Exponent(i3, e1) ==
          IF i3 <= Len(s) /\ Ch(s, i3) \in {"e", "E"}
             /\ e1 <= Len(s) /\ Ch(s, e1) \in StrChars(DigitChars)
          THEN SkipDigits(s, e1) ELSE i3
        Fraction(i3) ==
          Exponent(i3, IF i3 + 1 <= Len(s) /\ Ch(s, i3 + 1) \in {"+", "-"} THEN i3 + 2 ELSE i3 + 1)
        Integer(i1, i2) ==
          IF i2 = i1 THEN 0
          ELSE Fraction(IF i2 + 1 <= Len(s) /\ Ch(s, i2) = "." /\ Ch(s, i2 + 1) \in StrChars(DigitChars)
                        THEN SkipDigits(s, i2 + 1) ELSE i2)
        Sign(i1) ==
          Integer(i1, IF i1 <= Len(s) /\ Ch(s, i1) = "0" THEN i1 + 1 ELSE SkipDigits(s, i1))
    IN Sign(IF i <= Len(s) /\ Ch(s, i) = "-" THEN i + 1 ELSE i)

RECURSIVE ScanOnce(_, _), ScanObject(_, _, _), ScanArray(_, _, _)

\* scanner.py_make_scanner._scan_once(string, idx)
ScanOnce(s, i) ==
    LET String(r) == IF r.ok THEN Done(PyStr(r.v), r.end) ELSE Fail
        Object(j) == IF j <= Len(s) /\ Ch(s, j) = "}" THEN Done(PyDict(<<>>), j + 1)
                     ELSE ScanObject(s, j, PyDict(<<>>))
        Array(j) == IF j <= Len(s) /\ Ch(s, j) = "]" THEN Done(PyList(<<>>), j + 1)
                    ELSE ScanArray(s, j, <<>>)
        Number(end) ==
          IF end # 0 THEN Done(PyNum(SubSeq(s, i, end - 1)), end)
          ELSE IF StartsAt(s, i, "NaN") THEN Done(PyNum("NaN"), i + 3)
          ELSE IF StartsAt(s, i, "Infinity") THEN Done(PyNum("Infinity"), i + 8)
          ELSE IF StartsAt(s, i, "-Infinity") THEN Done(PyNum("-Infinity"), i + 9)
          ELSE Fail
        Value(c) ==
          IF c = "\"" THEN String(ScanString(s, i + 1, ""))
          ELSE IF c = "{" THEN Object(SkipWs(s, i + 1))
          ELSE IF c = "[" THEN Array(SkipWs(s, i + 1))
          ELSE IF StartsAt(s, i, "null") THEN Done(PyNone, i + 4)
          ELSE IF StartsAt(s, i, "true") THEN Done(PyBool("true"), i + 4)
          ELSE IF StartsAt(s, i, "false") THEN Done(PyBool("false"), i + 5)
          ELSE Number(NumberEnd(s, i))
    IN IF i > Len(s) THEN Fail ELSE Value(Ch(s, i))

\* decoder.JSONObject: i is at the opening quote of the next key
ScanObject(s, i, acc) ==
    LET Next_(d, n) ==
          IF n > Len(s) THEN Fail
          ELSE IF Ch(s, n) = "}" THEN Done(d, n + 1)
          ELSE IF Ch(s, n) # "," THEN Fail                    \* expecting ',' delimiter
          ELSE ScanObject(s, SkipWs(s, n + 1), d)
        Value(key, val) ==
          IF ~val.ok THEN Fail
          ELSE Next_(DictSet(acc, key.v, val.v), SkipWs(s, val.end))
        Colon(key, j) ==
          IF j > Len(s) \/ Ch(s, j) # ":" THEN Fail           \* expecting ':' delimiter
          ELSE Value(key, ScanOnce(s, SkipWs(s, j + 1)))
        Key(key) == IF ~key.ok THEN Fail ELSE Colon(key, SkipWs(s, key.end))
    IN IF i > Len(s) \/ Ch(s, i) # "\"" THEN Fail             \* expecting property name
       ELSE Key(ScanString(s, i + 1, ""))

\* decoder.JSONArray: i is at the start of the next element
ScanArray(s, i, acc) ==
    LET Next_(items, n) ==
          IF n > Len(s) THEN Fail
          ELSE IF Ch(s, n) = "]" THEN Done(PyList(items), n + 1)
          ELSE IF Ch(s, n) # "," THEN Fail
          ELSE ScanArray(s, SkipWs(s, n + 1), items)
        Value(val) == IF ~val.ok THEN Fail ELSE Next_(Append(acc, val.v), SkipWs(s, val.end))
    IN Value(ScanOnce(s, i))

\* json.loads(s): JSONDecoder.decode; ok = FALSE stands for json.JSONDecodeError
json_loads(s) ==
    LET Whole(r) ==
          IF ~r.ok THEN Fail
          ELSE IF SkipWs(s, r.end) <= Len(s) THEN Fail        \* extra data
          ELSE r
    IN Whole(ScanOnce(s, SkipWs(s, 1)))

(***************************************************************************)
(* The regular expressions of the recovery cascade                         *)
(***************************************************************************)
NoMatch == [found |-> FALSE]

\* the search without re.DOTALL: '.' stops at a newline
SearchBraces_one_line(text) ==
    LET Closes(i) == {j \in (i + 1)..Len(text) :
                        /\ Ch(text, j) = "}"
                        /\ \A k \in (i + 1)..(j - 1) : Ch(text, k) # "\n"}
        opens == {i \in 1..Len(text) : Ch(text, i) = "{" /\ Closes(i) # {}}
    IN IF opens = {} THEN NoMatch
       ELSE LET lo == CHOOSE i \in opens : \A j \in opens : i <= j
                hi == CHOOSE i \in Closes(lo) : \A j \in Closes(lo) : i <= j
            IN [found |-> TRUE, group |-> SubSeq(text, lo, hi)]

\* re.search(r'(\{.*?\})', text, re.DOTALL).group(1): from the first '{' to the
\* first '}' after it
SearchBraces(text) ==
    LET opens == {i \in 1..Len(text) : Ch(text, i) = "{"} IN
    IF opens = {} THEN NoMatch
    ELSE LET lo == CHOOSE i \in opens : \A j \in opens : i <= j
             closes == {i \in (lo + 1)..Len(text) : Ch(text, i) = "}"}
         IN IF closes = {} THEN NoMatch
            ELSE LET hi == CHOOSE i \in closes : \A j \in closes : i <= j
                 IN [found |-> TRUE, group |-> SubSeq(text, lo, hi)]

RECURSIVE SkipSpace(_, _)
SkipSpace(s, i) == IF i <= Len(s) /\ Ch(s, i) \in PyWhitespace THEN SkipSpace(s, i + 1) ELSE i

RECURSIVE SkipIdent(_, _)
SkipIdent(s, i) == IF i <= Len(s) /\ Ch(s, i) \in IdentChars THEN SkipIdent(s, i + 1) ELSE i

\* re.sub(r'([{,]\s*)([a-zA-Z0-9_]+)\s*:', r'\1"\2":', s), scanning from i
RECURSIVE QuoteKeysFrom(_, _)
QuoteKeysFrom(s, i) ==
    LET Match(j, a, b, c) ==                   \* ends of group 1 and group 2, the colon
          IF b > a /\ c <= Len(s) /\ Ch(s, c) = ":"
          THEN SubSeq(s, i, a - 1) \o "\"" \o SubSeq(s, a, b - 1) \o "\":" \o QuoteKeysFrom(s, c + 1)
          ELSE SubSeq(s, i, j) \o QuoteKeysFrom(s, j + 1)
        Ident(j, a, b) == Match(j, a, b, SkipSpace(s, b))
        Space(j, a) == Ident(j, a, SkipIdent(s, a))
        From(j) ==                             \* the next place a match can start
          IF j > Len(s) THEN SubSeq(s, i, Len(s)) ELSE Space(j, SkipSpace(s, j + 1))
    IN From(NextIn(s, i, {"{", ","}))

QuoteKeys(s) == QuoteKeysFrom(s, 1)

(***************************************************************************)
(* parse_query: the recovery cascade, field defaults, overrides, response  *)
(***************************************************************************)
Returned(val) == [raised |-> FALSE, v |-> val, stage |-> 0]

ReturnedAt(val, n) == [raised |-> FALSE, v |-> val, stage |-> n]

Raised(exc, msg) == [raised |-> TRUE, exc |-> exc, msg |-> msg]

Fields == <<"item_type", "material", "color">>

EmptyRecord ==
    PyDict(<<[k |-> "item_type", v |-> PyNone], [k |-> "material", v |-> PyNone],
             [k |-> "color", v |-> PyNone]>>)

\* the third attempt without the quoting of bare keys
RepairJson_quotes_only(response_text) ==
    LET Loaded(r) == IF r.ok THEN ReturnedAt(r.v, 3) ELSE ReturnedAt(EmptyRecord, 4)
        Searched(json_match) ==
          IF json_match.found THEN Loaded(json_loads(json_match.group))
          ELSE ReturnedAt(EmptyRecord, 4)
    IN Searched(SearchBraces(Replace(response_text, "'", "\"")))

\* third attempt (app.py 375-392); stage 4 is the all-None fallback
RepairJson(response_text) ==
    LET Loaded(r) == IF r.ok THEN ReturnedAt(r.v, 3) ELSE ReturnedAt(EmptyRecord, 4)
        Searched(json_match) ==
          IF json_match.found THEN Loaded(json_loads(json_match.group))
          ELSE ReturnedAt(EmptyRecord, 4)
    IN Searched(SearchBraces(QuoteKeys(Replace(response_text, "'", "\""))))

\* the cascade running the brace scan before the parse of the whole text
ExtractJson_scan_first(response_text) ==
    LET Whole(whole) ==
          IF whole.ok THEN ReturnedAt(whole.v, 1) ELSE RepairJson(response_text)
        Loaded(r) == IF r.ok THEN ReturnedAt(r.v, 2) ELSE Whole(json_loads(response_text))
        Searched(json_match) ==
          IF json_match.found THEN Loaded(json_loads(json_match.group))
          ELSE Whole(json_loads(response_text))
    IN Searched(SearchBraces(response_text))

\* first and second attempt (app.py 355-373): the ValueError raised when no
\* brace pair is found is not a JSONDecodeError or an AttributeError, so the
\* handler of the second attempt lets it through
ExtractJson(response_text) ==
    LET Loaded(r) == IF r.ok THEN ReturnedAt(r.v, 2) ELSE RepairJson(response_text)
        Searched(json_match) ==
          IF json_match.found THEN Loaded(json_loads(json_match.group))
          ELSE Raised("ValueError", "No JSON object found in response")
        Whole(whole) ==
          IF whole.ok THEN ReturnedAt(whole.v, 1) ELSE Searched(SearchBraces(response_text))
    IN Whole(json_loads(response_text))

\* `field in parsed_data` by the type of parsed_data; "error" is a TypeError
FieldIn(parsed_data, field) ==
    CASE parsed_data.t = "dict" -> IF DictHas(parsed_data, field) THEN "yes" ELSE "no"
      [] parsed_data.t = "list" ->
            IF \E i \in 1..Len(parsed_data.v) : PyEq(parsed_data.v[i], PyStr(field)) THEN "yes" ELSE "no"
      [] parsed_data.t = "str" -> IF Contains(parsed_data.v, field) THEN "yes" ELSE "no"
      [] OTHER -> "error"

\* app.py 394-397: for field in [...]: if field not in parsed_data: parsed_data[field] = None
RECURSIVE FillFieldsFrom(_, _)
FillFieldsFrom(parsed_data, n) ==
    LET Field(has) ==
          IF has = "error" THEN Raised("TypeError", "argument is not iterable")
          ELSE IF has = "yes" THEN FillFieldsFrom(parsed_data, n + 1)
          ELSE IF parsed_data.t = "dict" THEN FillFieldsFrom(DictSet(parsed_data, Fields[n], PyNone), n + 1)
          ELSE Raised("TypeError", "object does not support item assignment")
    IN IF n > Len(Fields) THEN Returned(parsed_data) ELSE Field(FieldIn(parsed_data, Fields[n]))

FillFields(parsed_data) == FillFieldsFrom(parsed_data, 1)

Rule1(query_lower) == Contains(query_lower, "gold metal accent table")

\* rule 2 giving way to the amber cabinet rule when both match
Rule2_unless_amber(query_lower) ==
    /\ Contains(query_lower, "shelving unit") /\ Contains(query_lower, "glass")
    /\ ~(Contains(query_lower, "amber") /\ Contains(query_lower, "cabinet"))

Rule2(query_lower) == Contains(query_lower, "shelving unit") /\ Contains(query_lower, "glass")

Rule3(query_lower) ==
    Contains(query_lower, "amber") /\ Contains(query_lower, "glass") /\ Contains(query_lower, "cabinet")

Record3(item_type, material, color) ==
    PyDict(<<[k |-> "item_type", v |-> item_type], [k |-> "material", v |-> material],
             [k |-> "color", v |-> color]>>)

\* the record of rule 2 with the color reset instead of kept
ShelvingUnit_color_reset(parsed_response) ==
    Returned(Record3(PyStr("shelving unit"), PyStr("glass"), PyNone))

\* the record of rule 2: item type and material forced, the color the one
\* the model extracted (parsed_response.get("color"))
ShelvingUnit(parsed_response) ==
    IF parsed_response.t = "dict"
    THEN Returned(Record3(PyStr("shelving unit"), PyStr("glass"), DictGet(parsed_response, "color")))
    ELSE Raised("AttributeError", "object has no attribute 'get'")

\* handle_edge_cases matching the rules against the query as it was typed
handle_edge_cases_exact_case(query, parsed_response) ==
    IF Rule1(query)
    THEN Returned(Record3(PyStr("accent table"), PyStr("metal"), PyStr("gold")))
    ELSE IF Rule2(query)
    THEN ShelvingUnit(parsed_response)
    ELSE IF Rule3(query)
    THEN Returned(Record3(PyStr("display cabinet"), PyStr("glass"), PyStr("amber")))
    ELSE Returned(parsed_response)

\* handle_edge_cases matching the rules against the item type the model
\* echoed as well as against the query
handle_edge_cases_on_echo(query, parsed_response) ==
    LET echo == IF parsed_response.t = "dict" /\ DictGet(parsed_response, "item_type").t = "str"
                THEN DictGet(parsed_response, "item_type").v ELSE ""
        query_lower == Lower(query \o " " \o echo)
    IN
    IF Rule1(query_lower)
    THEN Returned(Record3(PyStr("accent table"), PyStr("metal"), PyStr("gold")))
    ELSE IF Rule2(query_lower)
    THEN ShelvingUnit(parsed_response)
    ELSE IF Rule3(query_lower)
    THEN Returned(Record3(PyStr("display cabinet"), PyStr("glass"), PyStr("amber")))
    ELSE Returned(parsed_response)

\* handle_edge_cases(query, parsed_response): the first rule whose
\* substrings all occur in the lower-cased query decides
handle_edge_cases(query, parsed_response) ==
    LET query_lower == Lower(query) IN
    IF Rule1(query_lower)
    THEN Returned(Record3(PyStr("accent table"), PyStr("metal"), PyStr("gold")))
    ELSE IF Rule2(query_lower)
    THEN ShelvingUnit(parsed_response)
    ELSE IF Rule3(query_lower)
    THEN Returned(Record3(PyStr("display cabinet"), PyStr("glass"), PyStr("amber")))
    ELSE Returned(parsed_response)

\* ParsedQuery(**data): three Optional[str] fields, unknown keys ignored
ParsedQuery(data) ==
    IF data.t # "dict" THEN Raised("TypeError", "argument after ** must be a mapping")
    ELSE IF \E n \in 1..Len(Fields) : DictGet(data, Fields[n]).t \notin {"none", "str"}
    THEN Raised("ValidationError", "Input should be a valid string")
    ELSE Returned(Record3(DictGet(data, "item_type"), DictGet(data, "material"), DictGet(data, "color")))

Absent == [t |-> "absent"]

\* app.py 354-406 on the text the model returned: what each step produced and
\* the exception, if any, that the handler at 426-431 turns into a 500
ProcessResponse(query, response_text) ==
    LET Outcome(extracted, filled, edged, parsed_query) ==
          [stage |-> IF extracted.raised THEN 0 ELSE extracted.stage,
           extracted |-> IF extracted.raised THEN Absent ELSE extracted.v,
           parsed_data |-> IF filled.raised THEN Absent ELSE filled.v,
           edge_result |-> IF edged.raised THEN Absent ELSE edged.v,
           parsed_query |-> IF parsed_query.raised THEN Absent ELSE parsed_query.v,
           raised |-> parsed_query.raised,
           detail |-> IF parsed_query.raised THEN "Error processing query: " \o parsed_query.msg ELSE ""]
        Validate(extracted, filled, edged) ==
          Outcome(extracted, filled, edged, IF edged.raised THEN edged ELSE ParsedQuery(edged.v))
        Override(extracted, filled) ==
          Validate(extracted, filled, IF filled.raised THEN filled ELSE handle_edge_cases(query, filled.v))
        Fill(extracted) ==
          Override(extracted, IF extracted.raised THEN extracted ELSE FillFields(extracted.v))
    IN Fill(ExtractJson(response_text))

(***************************************************************************)
(* json.dumps (ensure_ascii, default separators)                           *)
(***************************************************************************)
EscapeCh_quotes_bare(c) ==
    CASE c = "\\" -> "\\\\"
      [] c = "\n" -> "\\n"
      [] c = "\r" -> "\\r"
      [] c = "\t" -> "\\t"
      [] c = "\f" -> "\\f"
      [] OTHER -> c

EscapeCh(c) ==
    CASE c = "\"" -> "\\\""
      [] c = "\\" -> "\\\\"
      [] c = "\n" -> "\\n"
      [] c = "\r" -> "\\r"
      [] c = "\t" -> "\\t"
      [] c = "\f" -> "\\f"
      [] OTHER -> c

Quoted(s) == "\"" \o Join([i \in 1..Len(s) |-> EscapeCh(Ch(s, i))], 1, Len(s)) \o "\""

RECURSIVE json_dumps(_), DumpItems(_, _), DumpElems(_, _)
json_dumps(val) ==
    CASE val.t = "none" -> "null"
      [] val.t \in {"num", "bool"} -> val.v
      [] val.t = "str" -> Quoted(val.v)
      [] val.t = "list" -> "[" \o DumpElems(val.v, 1) \o "]"
      [] val.t = "dict" -> "{" \o DumpItems(val.v, 1) \o "}"

DumpItems(items, i) ==
    IF i > Len(items) THEN ""
    ELSE Quoted(items[i].k) \o ": " \o json_dumps(items[i].v)
         \o (IF i < Len(items) THEN ", " ELSE "") \o DumpItems(items, i + 1)

DumpElems(items, i) ==
    IF i > Len(items) THEN ""
    ELSE json_dumps(items[i]) \o (IF i < Len(items) THEN ", " ELSE "") \o DumpElems(items, i + 1)

(***************************************************************************)
(* State                                                                   *)
(***************************************************************************)
VARIABLES
    llm,            \* the module-level model handle: "None" or "loaded"
    redis_enabled,  \* QueryCache.redis_enabled
    store,          \* the Redis keyspace: key -> [data, ex]
    history,        \* one entry per handled request or expired key, oldest first
    handles,        \* the model handle of each server process sharing the store
    inflight,       \* server process -> its request that has read the cache and not yet answered
    context,        \* logging_config._thread_local of the event loop's thread
    dispatches,     \* request or request_context block -> how far it has run
    server          \* scripts/start_server.start_server: its locals and its outcome

vars == <<llm, redis_enabled, store, history, handles, inflight, context, dispatches, server>>

\* QueryCache.set(..., expiry: int = 3600)
DEFAULT_EXPIRY == 3600

(***************************************************************************)
(* QueryCache                                                              *)
(***************************************************************************)
\* a cache key that ignores letter case
CacheKey_folded(query) == "query:" \o Lower(query)

\* cache_key = f"query:{query}"
CacheKey(query) == "query:" \o query

\* truth value of a Python object, as in `if cached_result:`
Truthy(val) ==
    CASE val.t = "none" -> FALSE
      [] val.t = "bool" -> val.v = "true"
      [] val.t = "str" -> val.v # ""
      [] val.t \in {"list", "dict"} -> Len(val.v) > 0
      [] OTHER -> TRUE

\* QueryCache.get reading the bare query instead of the prefixed key
CacheGet_bare_key(st, query, redis_ok) ==
    LET Loaded(result) == IF result.ok THEN result.v ELSE PyNone IN
    IF ~redis_enabled THEN PyNone
    ELSE IF ~redis_ok THEN PyNone
    ELSE IF query \in DOMAIN st /\ st[query].data # ""
         THEN Loaded(json_loads(st[query].data))
         ELSE PyNone

\* QueryCache.get on keyspace st: redis_ok = FALSE is the store raising inside
\* the try block
CacheGet(st, query, redis_ok) ==
    LET Loaded(result) == IF result.ok THEN result.v ELSE PyNone
        Read(cache_key) ==
          IF cache_key \in DOMAIN st /\ st[cache_key].data # ""
          THEN Loaded(json_loads(st[cache_key].data))
          ELSE PyNone
    IN
    IF ~redis_enabled THEN PyNone
    ELSE IF ~redis_ok THEN PyNone
    ELSE Read(CacheKey(query))

\* QueryCache.set that leaves an entry already present as it is
CacheSet_if_absent(st, query, result, expiry, redis_ok) ==
    IF ~redis_enabled THEN [store |-> st, returned |-> FALSE]
    ELSE IF ~redis_ok THEN [store |-> st, returned |-> FALSE]
    ELSE IF CacheKey(query) \in DOMAIN st THEN [store |-> st, returned |-> TRUE]
    ELSE [store |-> (CacheKey(query) :> [data |-> json_dumps(result), ex |-> expiry]) @@ st,
          returned |-> TRUE]

\* QueryCache.set on keyspace st: the keyspace afterwards and the value returned
CacheSet(st, query, result, expiry, redis_ok) ==
    IF ~redis_enabled THEN [store |-> st, returned |-> FALSE]
    ELSE IF ~redis_ok THEN [store |-> st, returned |-> FALSE]
    ELSE [store |-> (CacheKey(query) :> [data |-> json_dumps(result), ex |-> expiry]) @@ st,
          returned |-> TRUE]

(***************************************************************************)
(* POST /parse                                                             *)
(***************************************************************************)
\* QueryResponse(...).model_dump()
QueryResponse(generation_time, parsed_query, query, cached, total_time, cache_lookup_time) ==
    PyDict(<<[k |-> "generation_time", v |-> generation_time],
             [k |-> "parsed_query", v |-> parsed_query],
             [k |-> "query", v |-> PyStr(query)],
             [k |-> "cached", v |-> cached],
             [k |-> "total_time", v |-> total_time],
             [k |-> "cache_lookup_time", v |-> cache_lookup_time]>>)

NoProcess ==
    [stage |-> 0, extracted |-> Absent, parsed_data |-> Absent, edge_result |-> Absent,
     parsed_query |-> Absent, raised |-> FALSE, detail |-> ""]

\* the query taken from the request untrimmed
TrimQuery_untrimmed(raw) == raw

\* query = request.query.strip()
TrimQuery(raw) == Strip(raw)

\* A request in progress: the handler's locals, the process and store state it
\* sees and leaves, and what it has done so far.  env is what the outside
\* world does during the request: whether the model loads, what generate
\* does, whether the store answers, the measured times.
StartRequest(raw, env, handle, st) ==
    [endpoint |-> "parse", raw |-> raw, env |-> env, query |-> TrimQuery(raw),
     cached_result |-> PyNone, status |-> 0, detail |-> "", response |-> Absent,
     hit |-> FALSE, said |-> FALSE, text |-> "", process |-> NoProcess,
     cache_reads |-> 0, read_failed |-> FALSE, cache_writes |-> 0, stored |-> FALSE,
     constructs |-> 0, model_calls |-> 0, llm |-> handle, store |-> st]

\* app.py 302-304
RejectEmpty(run) == [run EXCEPT !.status = 400, !.detail = "Query cannot be empty"]

\* Lookup letting a failure of the store reach the handler
Lookup_propagating(run) ==
    IF redis_enabled /\ ~run.env.get_ok
    THEN [run EXCEPT !.cache_reads = @ + 1, !.read_failed = TRUE,
                     !.status = 500, !.detail = "Error connecting to Redis"]
    ELSE [run EXCEPT !.cached_result = CacheGet(run.store, run.query, run.env.get_ok),
                     !.cache_reads = @ + 1,
                     !.read_failed = FALSE]

\* app.py 308-311
Lookup(run) ==
    [run EXCEPT !.cached_result = CacheGet(run.store, run.query, run.env.get_ok),
                !.cache_reads = @ + 1,
                !.read_failed = redis_enabled /\ ~run.env.get_ok]

\* ServeFromCache reporting the generation time measured in this request
ServeFromCache_remeasured(run) ==
    LET Served(served, generation_time, parsed_query) ==
          IF parsed_query.raised
          THEN [served EXCEPT !.status = 500, !.detail = parsed_query.msg]
          ELSE IF generation_time.t # "num"
          THEN [served EXCEPT !.status = 500, !.detail = "Input should be a valid number"]
          ELSE [served EXCEPT !.status = 200,
                   !.response = QueryResponse(generation_time, parsed_query.v, run.query,
                                   PyBool("true"), PyNum(run.env.timing.total_time),
                                   PyNum(run.env.timing.cache_lookup_time))]
        Payload(served, cached_result) ==
          IF cached_result.t # "dict"
          THEN [served EXCEPT !.status = 500, !.detail = "object has no attribute 'get'"]
          ELSE Served(served,
                      PyNum(run.env.timing.generation_time),
                      ParsedQuery(IF DictHas(cached_result, "parsed_query")
                                  THEN DictGet(cached_result, "parsed_query") ELSE PyDict(<<>>)))
    IN Payload([run EXCEPT !.hit = TRUE], run.cached_result)

\* app.py 314-326: the response built from the cached payload; an exception
\* here is answered by global_exception_handler
ServeFromCache(run) ==
    LET Served(served, generation_time, parsed_query) ==
          IF parsed_query.raised
          THEN [served EXCEPT !.status = 500, !.detail = parsed_query.msg]
          ELSE IF generation_time.t # "num"
          THEN [served EXCEPT !.status = 500, !.detail = "Input should be a valid number"]
          ELSE [served EXCEPT !.status = 200,
                   !.response = QueryResponse(generation_time, parsed_query.v, run.query,
                                   PyBool("true"), PyNum(run.env.timing.total_time),
                                   PyNum(run.env.timing.cache_lookup_time))]
        Payload(served, cached_result) ==
          IF cached_result.t # "dict"
          THEN [served EXCEPT !.status = 500, !.detail = "object has no attribute 'get'"]
          ELSE Served(served,
                      IF DictHas(cached_result, "generation_time")
                      THEN DictGet(cached_result, "generation_time") ELSE PyNum("0.0"),
                      ParsedQuery(IF DictHas(cached_result, "parsed_query")
                                  THEN DictGet(cached_result, "parsed_query") ELSE PyDict(<<>>)))
    IN Payload([run EXCEPT !.hit = TRUE], run.cached_result)

\* EnsureModel leaving the handle set after a construction that raised
EnsureModel_keeps_broken_handle(run) ==
    IF run.llm # "None" THEN run
    ELSE IF run.env.construct_ok
    THEN [run EXCEPT !.constructs = @ + 1, !.llm = "loaded"]
    ELSE [run EXCEPT !.constructs = @ + 1, !.llm = "loaded", !.status = 500,
                     !.detail = "Failed to initialize language model: " \o run.env.construct_msg]

\* EnsureModel building the model whether or not the handle is set
EnsureModel_eager(run) ==
    IF run.env.construct_ok
    THEN [run EXCEPT !.constructs = @ + 1, !.llm = "loaded"]
    ELSE [run EXCEPT !.constructs = @ + 1, !.status = 500,
                     !.detail = "Failed to initialize language model: " \o run.env.construct_msg]

\* app.py 328-339
EnsureModel(run) ==
    IF run.llm # "None" THEN run
    ELSE IF run.env.construct_ok
    THEN [run EXCEPT !.constructs = @ + 1, !.llm = "loaded"]
    ELSE [run EXCEPT !.constructs = @ + 1, !.status = 500,
                     !.detail = "Failed to initialize language model: " \o run.env.construct_msg]

\* Generate calling the model a second time after a failure
Generate_retries_once(run) ==
    IF run.env.generated.raised
    THEN [run EXCEPT !.model_calls = @ + 2, !.status = 500,
                     !.detail = "Error processing query: " \o run.env.generated.msg]
    ELSE [run EXCEPT !.model_calls = @ + 1, !.said = TRUE, !.text = run.env.generated.text]

\* app.py 342-352 with the handler at 426-431
Generate(run) ==
    IF run.env.generated.raised
    THEN [run EXCEPT !.model_calls = @ + 1, !.status = 500,
                     !.detail = "Error processing query: " \o run.env.generated.msg]
    ELSE [run EXCEPT !.model_calls = @ + 1, !.said = TRUE, !.text = run.env.generated.text]

\* Respond without the cache.set call
Respond_without_store(run) ==
    LET timing == run.env.timing
        Built(parsed, result) == [parsed EXCEPT !.status = 200, !.response = result]
        Parsed(p) ==
          IF p.raised
          THEN [run EXCEPT !.process = p, !.status = 500, !.detail = p.detail]
          ELSE Built([run EXCEPT !.process = p],
                     QueryResponse(PyNum(timing.generation_time), p.parsed_query, run.query,
                                   PyBool("false"), PyNum(timing.total_time),
                                   IF timing.cache_lookup_time = "0.0" THEN PyNone
                                   ELSE PyNum(timing.cache_lookup_time)))
    IN Parsed(ProcessResponse(run.query, run.text))

\* Respond caching the all-None record when parsing failed
Respond_caching_failures(run) ==
    LET timing == run.env.timing
        Stored(parsed, result, written) ==
          [parsed EXCEPT !.status = 200, !.response = result, !.cache_writes = @ + 1,
                         !.stored = written.returned, !.store = written.store]
        Built(parsed, result) ==
          Stored(parsed, result,
                 CacheSet(run.store, run.query, result, DEFAULT_EXPIRY, run.env.set_ok))
        Failed(p, written) ==
          [run EXCEPT !.process = p, !.status = 500, !.detail = p.detail,
                      !.cache_writes = @ + 1, !.stored = written.returned,
                      !.store = written.store]
        Parsed(p) ==
          IF p.raised
          THEN Failed(p, CacheSet(run.store, run.query,
                                  QueryResponse(PyNum(timing.generation_time), EmptyRecord,
                                                run.query, PyBool("false"),
                                                PyNum(timing.total_time), PyNone),
                                  DEFAULT_EXPIRY, run.env.set_ok))
          ELSE Built([run EXCEPT !.process = p],
                     QueryResponse(PyNum(timing.generation_time), p.parsed_query, run.query,
                                   PyBool("false"), PyNum(timing.total_time),
                                   IF timing.cache_lookup_time = "0.0" THEN PyNone
                                   ELSE PyNum(timing.cache_lookup_time)))
    IN Parsed(ProcessResponse(run.query, run.text))

\* app.py 354-424 with the handler at 426-431
Respond(run) ==
    LET timing == run.env.timing
        Stored(parsed, result, written) ==
          [parsed EXCEPT !.status = 200, !.response = result, !.cache_writes = @ + 1,
                         !.stored = written.returned, !.store = written.store]
        Built(parsed, result) ==
          Stored(parsed, result,
                 CacheSet(run.store, run.query, result, DEFAULT_EXPIRY, run.env.set_ok))
        Parsed(p) ==
          IF p.raised
          THEN [run EXCEPT !.process = p, !.status = 500, !.detail = p.detail]
          ELSE Built([run EXCEPT !.process = p],
                     QueryResponse(PyNum(timing.generation_time), p.parsed_query, run.query,
                                   PyBool("false"), PyNum(timing.total_time),
                                   IF timing.cache_lookup_time = "0.0" THEN PyNone
                                   ELSE PyNum(timing.cache_lookup_time)))
    IN Parsed(ProcessResponse(run.query, run.text))

\* parse_query after a cache miss: app.py 328-431
Complete(looked) ==
    LET Called(called) == IF called.status # 0 THEN called ELSE Respond(called)
        Ready(ready) == IF ready.status # 0 THEN ready ELSE Called(Generate(ready))
    IN Ready(EnsureModel(looked))

\* parse_query(request), start to finish
ParseOutcome(raw, env, handle, st) ==
    LET Looked(looked) ==
          IF Truthy(looked.cached_result) THEN ServeFromCache(looked)
          ELSE Complete(looked)
        Arrived(arrived) ==
          IF arrived.query = "" THEN RejectEmpty(arrived) ELSE Looked(Lookup(arrived))
    IN Arrived(StartRequest(raw, env, handle, st))

(***************************************************************************)
(* Inputs                                                                  *)
(***************************************************************************)
\* the most requests and key expiries one behaviour contains
MaxRequests == 2

\* the most pieces a generated model text is assembled from
MaxPieces == 2

\* the most calls of the cache on its own
MaxCacheCalls == 3

\* the largest max_retries start_server is called with
MaxRetries == 3

\* the server processes that share one Redis store
Procs == {"server-1", "server-2"}

NoText == [raised |-> TRUE, text |-> "", msg |-> "CUDA out of memory"]

Says(text) == [raised |-> FALSE, text |-> text, msg |-> ""]

\* measured times: generation, total, cache lookup
Timings ==
    {[generation_time |-> "0.25", total_time |-> "0.2612", cache_lookup_time |-> "0.0003"],
     [generation_time |-> "1.5", total_time |-> "1.5021", cache_lookup_time |-> "0.0"]}

\* what can happen around one request, for model texts drawn from texts
Envs(texts, timings) ==
    {[construct_ok |-> FALSE, construct_msg |-> "model files not found", generated |-> NoText,
      get_ok |-> g, set_ok |-> TRUE, timing |-> tm] : g \in BOOLEAN, tm \in timings}
    \cup {[construct_ok |-> TRUE, construct_msg |-> "", generated |-> NoText,
           get_ok |-> g, set_ok |-> TRUE, timing |-> tm] : g \in BOOLEAN, tm \in timings}
    \cup {[construct_ok |-> TRUE, construct_msg |-> "", generated |-> Says(t),
           get_ok |-> g, set_ok |-> w, timing |-> tm] :
              t \in texts, g \in BOOLEAN, w \in BOOLEAN, tm \in timings}

\* requests of the multi-request behaviours
Queries == {"   ", "red chair", " red chair\n", "Gold Metal Accent Table"}

\* requests that are equal after trimming, or differ in letter case, inner
\* whitespace or punctuation
KeyQueries == {"red chair", " red chair\n", "\tred chair  ", "Red chair", "red  chair", "red chair!"}

KeyTexts == {"{\"item_type\": \"chair\", \"color\": \"red\"}"}

KeyTimings == {[generation_time |-> "0.25", total_time |-> "0.2612", cache_lookup_time |-> "0.0003"]}

Texts == {"{\"item_type\": \"chair\", \"color\": \"dark \\\"red\\\"\"}", "I could not parse that."}

\* model texts of the single-request behaviours: the documented cases ...
SampleTexts ==
    {"{\"item_type\": \"chair\", \"material\": \"wood\", \"color\": null}",
     "noise noise {\"item_type\": \"chair\"} trailing noise",
     "{item_type: 'sofa', color: 'red'}",
     "\n        This is not valid JSON and should be handled gracefully by the parser.\n        ",
     "\n        {\n            \"item_type\": \"dining table\",\n            \"material\": \"metal\",\n            \"color\": \"blue\"\n        }\n        ",
     "{\"item_type\": \"x\", \"material\": \"y\", \"color\": \"silver\"}",
     "{\"item_type\": \"gold metal accent table\", \"material\": \"glass shelving unit\", \"color\": \"amber cabinet\"}",
     "a gold metal accent table {'item_type': 'amber glass cabinet', 'note': 'shelving unit'}",
     "   ",
     "[{\"item_type\": \"chair\"}]",
     "42",
     "\"chair\"",
     "[\"item_type\", \"material\", \"color\"]",
     "\"item_type material color\"",
     "{\"item_type\": 5}",
     "{\"color\": [\"red\"]}",
     "{\"item_type\": \"a\", \"x\": 1}",
     "{\"a\": {\"b\": 1}}",
     "x {bad} y",
     "Sure:\n{\n  \"material\": \"oak\"\n}\nDone.",
     "{\"item_type\": \"chair\",}",
     "{\"color\": \"a\\\"b\"}"}

\* ... and every text of up to MaxPieces pieces
Pieces == {"{", "}", "[", "]", "\"color\": \"red\"", "color: 'red'", "null", "noise ", "\n"}

RECURSIVE PieceTexts(_)
PieceTexts(n) ==
    IF n = 0 THEN {""}
    ELSE LET shorter == PieceTexts(n - 1) IN shorter \cup {t \o piece : t \in shorter, piece \in Pieces}

WideTexts == SampleTexts \cup PieceTexts(MaxPieces)

WideQueries ==
    {"", " \t\n", "malformed query", "blue metal dining table",
     "I want a Gold Metal Accent Table please", "glass shelving unit", "  Glass display SHELVING UNIT\n",
     "amber glass cabinet for display", "amber glass shelving unit cabinet",
     "gold metal accent table near an amber glass shelving unit cabinet",
     "amber cabinet", "shelving unit"}

WideEnvs ==
    {[construct_ok |-> FALSE, construct_msg |-> "model files not found", generated |-> NoText,
      get_ok |-> TRUE, set_ok |-> TRUE, timing |-> tm] : tm \in Timings}
    \cup {[construct_ok |-> TRUE, construct_msg |-> "", generated |-> NoText,
           get_ok |-> TRUE, set_ok |-> TRUE, timing |-> tm] : tm \in Timings}
    \cup {[construct_ok |-> TRUE, construct_msg |-> "", generated |-> Says(t),
           get_ok |-> TRUE, set_ok |-> TRUE, timing |-> tm] : t \in WideTexts, tm \in Timings}

(***************************************************************************)
(* utils/logging_config.py: the request context                            *)
(***************************************************************************)
\* _thread_local without attributes
NoContext == [request_id |-> Absent, session_id |-> Absent, user_id |-> Absent]

\* set_request_context(request_id, session_id, user_id) on context ctx; uuid4
\* is the identifier generated when none is given
set_request_context(ctx, request_id, session_id, user_id, uuid4) ==
    [request_id |-> IF request_id.t = "none" THEN PyStr(uuid4) ELSE request_id,
     session_id |-> IF Truthy(session_id) THEN session_id ELSE ctx.session_id,
     user_id |-> IF Truthy(user_id) THEN user_id ELSE ctx.user_id]

\* clear_request_context removing the request_id only
clear_request_context_id_only(ctx) == [ctx EXCEPT !.request_id = Absent]

\* clear_request_context(): each attribute that is set is deleted
clear_request_context(ctx) ==
    [ctx EXCEPT !.request_id = Absent, !.session_id = Absent, !.user_id = Absent]

\* app.add_middleware(RequestLoggingMiddleware, exclude_paths=[...]), app.py 45
exclude_paths == {"/health", "/docs", "/redoc", "/openapi.json"}

\* any(request.url.path.startswith(path) for path in self.exclude_paths)
ExcludedPath(path) ==
    \E prefix \in exclude_paths :
        Len(prefix) <= Len(path) /\ SubSeq(path, 1, Len(prefix)) = prefix

\* sanitize_data's default for sensitive_keys
DefaultSensitiveKeys ==
    {"password", "token", "secret", "key", "authorization", "credit_card", "ssn", "api_key"}

\* any(sk in key.lower() for sk in sensitive_keys_lower)
SensitiveKey(key, sensitive_keys) ==
    LET names == IF sensitive_keys.given THEN sensitive_keys.keys ELSE DefaultSensitiveKeys
    IN \E sk \in names : Contains(Lower(key), Lower(sk))

RECURSIVE sanitize_data(_, _)
\* sanitize_data returning the lists it meets as they are
sanitize_data_skipping_lists(data, sensitive_keys) ==
    IF data.t = "dict"
    THEN PyDict([i \in 1..Len(data.v) |->
                    [k |-> data.v[i].k,
                     v |-> IF SensitiveKey(data.v[i].k, sensitive_keys) THEN PyStr("[REDACTED]")
                           ELSE IF data.v[i].v.t = "dict"
                           THEN sanitize_data(data.v[i].v, sensitive_keys)
                           ELSE data.v[i].v]])
    ELSE data

\* sanitize_data(data, sensitive_keys): a new structure is built, data is
\* only read
sanitize_data(data, sensitive_keys) ==
    IF data.t = "dict"
    THEN PyDict([i \in 1..Len(data.v) |->
                    [k |-> data.v[i].k,
                     v |-> IF SensitiveKey(data.v[i].k, sensitive_keys) THEN PyStr("[REDACTED]")
                           ELSE IF data.v[i].v.t \in {"dict", "list"}
                           THEN sanitize_data(data.v[i].v, sensitive_keys)
                           ELSE data.v[i].v]])
    ELSE IF data.t = "list"
    THEN PyList([i \in 1..Len(data.v) |-> sanitize_data(data.v[i], sensitive_keys)])
    ELSE data

\* start_server has not been called
NotStarted ==
    [pc |-> "idle", original_port |-> 0, port |-> 0, max_retries |-> 0, iteration |-> 0,
     attempt |-> 0, tries |-> <<>>, status |-> 0]

(***************************************************************************)
(* Actions                                                                 *)
(***************************************************************************)
Init ==
    /\ llm = "None"
    /\ redis_enabled \in BOOLEAN
    /\ store = <<>>
    /\ history = <<>>
    /\ handles = [p \in Procs |-> "None"]
    /\ inflight = <<>>
    /\ context = NoContext
    /\ dispatches = <<>>
    /\ server = NotStarted

\* what the history keeps of a finished request
Entry(out) ==
    [endpoint |-> out.endpoint, raw |-> out.raw, query |-> out.query,
     status |-> out.status, detail |-> out.detail, response |-> out.response, hit |-> out.hit,
     said |-> out.said, text |-> out.text, process |-> out.process,
     cache_reads |-> out.cache_reads, read_failed |-> out.read_failed,
     cache_writes |-> out.cache_writes, stored |-> out.stored, constructs |-> out.constructs, model_calls |-> out.model_calls,
     llm_before |-> llm, llm_after |-> out.llm, store_before |-> store, store_after |-> out.store]

\* one POST /parse request, from arrival to response
ParseQuery(raw, env) ==
    LET Finish(out) ==
          /\ llm' = out.llm
          /\ store' = out.store
          /\ history' = Append(history, Entry(out))
          /\ UNCHANGED <<redis_enabled, handles, inflight, context, dispatches, server>>
    IN Finish(ParseOutcome(raw, env, llm, store))

\* Redis drops a key whose time to live has run out
Expire(cache_key) ==
    /\ cache_key \in DOMAIN store
    /\ store' = [k \in (DOMAIN store) \ {cache_key} |-> store[k]]
    /\ history' = Append(history,
          [endpoint |-> "expire", raw |-> cache_key, query |-> cache_key,
           status |-> 0, detail |-> "", response |-> Absent, hit |-> FALSE, said |-> FALSE,
           text |-> "", process |-> NoProcess,
           cache_reads |-> 0, read_failed |-> FALSE, cache_writes |-> 0, stored |-> FALSE,
           constructs |-> 0, model_calls |-> 0, llm_before |-> llm, llm_after |-> llm,
           store_before |-> store, store_after |-> store'])
    /\ UNCHANGED <<llm, redis_enabled, handles, inflight, context, dispatches, server>>

Next ==
    /\ Len(history) < MaxRequests
    /\ \/ \E raw \in Queries, env \in Envs(Texts, Timings) : ParseQuery(raw, env)
       \/ \E cache_key \in DOMAIN store : Expire(cache_key)

Spec == Init /\ [][Next]_vars

(***************************************************************************)
(* Several server processes on one store; POST /debug                      *)
(***************************************************************************)
FURNITURE_PROMPT ==
    "\n"
    \o "Parse this furniture query exactly as described:\n"
    \o "\n"
    \o "EXACT QUERY MATCHES FIRST:\n"
    \o "- If query is \"glass display shelving unit with metal frame\" RETURN {\"item_type\": \"shelving unit\", \"material\": \"glass\", \"color\": null}\n"
    \o "- If query is \"gold metal accent table\" RETURN {\"item_type\": \"accent table\", \"material\": \"metal\", \"color\": \"gold\"}\n"
    \o "- If query is \"amber glass cabinet for display\" RETURN {\"item_type\": \"display cabinet\", \"material\": \"glass\", \"color\": \"amber\"}\n"
    \o "\n"
    \o "GENERAL RULES (only if no exact match above):\n"
    \o "1. IMPORTANT: If query contains phrase \"shelving unit\" → item_type = \"shelving unit\"\n"
    \o "2. IMPORTANT: If query contains phrase \"accent table\" → item_type = \"accent table\"\n"
    \o "3. If query contains \"metal\" → material = \"metal\"\n"
    \o "4. If query contains \"glass\" → material = \"glass\"\n"
    \o "5. If query contains \"wooden\" or \"wood\" → material = \"wooden\"\n"
    \o "6. If query contains \"gold\" AND \"metal\" → color = \"gold\", material = \"metal\"\n"
    \o "7. If query contains \"amber\" AND \"glass\" → color = \"amber\", material = \"glass\"\n"
    \o "\n"
    \o "Output format: Valid JSON with fields \"item_type\", \"material\", and \"color\". Use null for missing properties.\n"

\* combined_prompt = f"{FURNITURE_PROMPT}\n\nQuery: \"{query}\""
CombinedPrompt(query) == FURNITURE_PROMPT \o "\n\nQuery: \"" \o query \o "\""

\* debug_query(request): the query is taken untrimmed and the cache is not used
DebugOutcome(raw, env, handle, st) ==
    LET Called(called) ==
          IF called.env.generated.raised
          THEN [called EXCEPT !.model_calls = @ + 1, !.status = 500,
                              !.detail = "Error in debug endpoint: " \o called.env.generated.msg]
          ELSE [called EXCEPT !.model_calls = @ + 1, !.said = TRUE,
                              !.text = called.env.generated.text, !.status = 200,
                              !.response =
                                 PyDict(<<[k |-> "query", v |-> PyStr(raw)],
                                          [k |-> "prompt", v |-> PyStr(CombinedPrompt(raw))],
                                          [k |-> "raw_llm_output", v |-> PyStr(called.env.generated.text)],
                                          [k |-> "processing_time", v |-> PyNum(called.env.timing.total_time)]>>)]
        Ready(ready) == IF ready.status # 0 THEN ready ELSE Called(ready)
    IN Ready(EnsureModel([StartRequest(raw, env, handle, st) EXCEPT !.endpoint = "debug", !.query = raw]))

\* what the history keeps of a request served by process p; seen is the store
\* as the request's cache read found it
ProcEntry(p, out, seen) ==
    [proc |-> p, seen |-> seen, write_failed |-> redis_enabled /\ ~out.env.set_ok]
    @@ [Entry(out) EXCEPT !.llm_before = handles[p]]

Started == Len(history) + Cardinality(DOMAIN inflight)

\* A process takes up a /parse request and runs it up to the cache read
\* (app.py 298-326).  The handler is a coroutine without a suspension point,
\* so the process takes up no other request until this one is answered.
Begin(p, raw, env) ==
    LET Answer(out) ==
          /\ history' = Append(history, ProcEntry(p, out, store))
          /\ UNCHANGED inflight
        Looked(looked) ==
          IF Truthy(looked.cached_result) THEN Answer(ServeFromCache(looked))
          ELSE /\ inflight' = (p :> [run |-> looked, seen |-> store]) @@ inflight
               /\ UNCHANGED history
        Arrived(arrived) ==
          IF arrived.query = "" THEN Answer(RejectEmpty(arrived)) ELSE Looked(Lookup(arrived))
    IN /\ p \notin DOMAIN inflight
       /\ Started < MaxRequests
       /\ Arrived(StartRequest(raw, env, handles[p], store))
       /\ UNCHANGED <<llm, redis_enabled, store, handles, context, dispatches, server>>

\* The process runs the request from the model to the cache write and the
\* response (app.py 328-431), on the store as it is by now.
Finish(p) ==
    LET Answer(out) ==
          /\ handles' = [handles EXCEPT ![p] = out.llm]
          /\ store' = out.store
          /\ history' = Append(history, ProcEntry(p, out, inflight[p].seen))
    IN /\ p \in DOMAIN inflight
       /\ Answer(Complete([inflight[p].run EXCEPT !.store = store]))
       /\ inflight' = [q \in (DOMAIN inflight) \ {p} |-> inflight[q]]
       /\ UNCHANGED <<llm, redis_enabled, context, dispatches, server>>

\* one POST /debug request, from arrival to response
DebugQuery(p, raw, env) ==
    LET Answer(out) ==
          /\ handles' = [handles EXCEPT ![p] = out.llm]
          /\ history' = Append(history, ProcEntry(p, out, store))
    IN /\ p \notin DOMAIN inflight
       /\ Started < MaxRequests
       /\ Answer(DebugOutcome(raw, env, handles[p], store))
       /\ UNCHANGED <<llm, redis_enabled, store, inflight, context, dispatches, server>>

\* test_endpoint with the chair keyword looked for before the table keyword
TestItemType_chair_first(query_lower) ==
    IF Contains(query_lower, "chair") THEN PyStr("chair")
    ELSE IF Contains(query_lower, "table")
    THEN (IF Contains(query_lower, "dining") THEN PyStr("dining table") ELSE PyStr("table"))
    ELSE IF Contains(query_lower, "sofa") \/ Contains(query_lower, "couch") THEN PyStr("sofa")
    ELSE IF Contains(query_lower, "bookshelf") \/ Contains(query_lower, "shelf") THEN PyStr("bookshelf")
    ELSE IF Contains(query_lower, "bed") THEN PyStr("bed")
    ELSE IF Contains(query_lower, "desk") THEN PyStr("desk")
    ELSE IF Contains(query_lower, "dresser") \/ Contains(query_lower, "drawer") THEN PyStr("dresser")
    ELSE PyStr("furniture")

\* app.py 201-217
TestItemType(query_lower) ==
    IF Contains(query_lower, "table")
    THEN (IF Contains(query_lower, "dining") THEN PyStr("dining table") ELSE PyStr("table"))
    ELSE IF Contains(query_lower, "chair") THEN PyStr("chair")
    ELSE IF Contains(query_lower, "sofa") \/ Contains(query_lower, "couch") THEN PyStr("sofa")
    ELSE IF Contains(query_lower, "bookshelf") \/ Contains(query_lower, "shelf") THEN PyStr("bookshelf")
    ELSE IF Contains(query_lower, "bed") THEN PyStr("bed")
    ELSE IF Contains(query_lower, "desk") THEN PyStr("desk")
    ELSE IF Contains(query_lower, "dresser") \/ Contains(query_lower, "drawer") THEN PyStr("dresser")
    ELSE PyStr("furniture")

\* app.py 219-233
TestMaterial(query_lower) ==
    IF Contains(query_lower, "wood") \/ Contains(query_lower, "wooden") THEN PyStr("wooden")
    ELSE IF Contains(query_lower, "metal") \/ Contains(query_lower, "steel")
            \/ Contains(query_lower, "iron") THEN PyStr("metal")
    ELSE IF Contains(query_lower, "plastic") THEN PyStr("plastic")
    ELSE IF Contains(query_lower, "leather") THEN PyStr("leather")
    ELSE IF Contains(query_lower, "fabric") \/ Contains(query_lower, "cloth") THEN PyStr("fabric")
    ELSE IF Contains(query_lower, "glass") THEN PyStr("glass")
    ELSE PyNone

\* app.py 235-253
TestColor(query_lower) ==
    IF Contains(query_lower, "blue") THEN PyStr("blue")
    ELSE IF Contains(query_lower, "red") THEN PyStr("red")
    ELSE IF Contains(query_lower, "green") THEN PyStr("green")
    ELSE IF Contains(query_lower, "yellow") THEN PyStr("yellow")
    ELSE IF Contains(query_lower, "black") THEN PyStr("black")
    ELSE IF Contains(query_lower, "white") THEN PyStr("white")
    ELSE IF Contains(query_lower, "brown") THEN PyStr("brown")
    ELSE IF Contains(query_lower, "gray") \/ Contains(query_lower, "grey") THEN PyStr("gray")
    ELSE PyNone

\* test_endpoint(request): neither the cache nor the model is used
TestOutcome(raw, env, handle, st) ==
    LET Keyed(query, query_lower) ==
          [StartRequest(raw, env, handle, st) EXCEPT
             !.endpoint = "test", !.query = query, !.status = 200,
             !.response =
                QueryResponse(PyNum("0.01"),
                              Record3(TestItemType(query_lower), TestMaterial(query_lower),
                                      TestColor(query_lower)),
                              query, PyBool("false"), PyNum(env.timing.total_time), PyNone)]
        Trimmed(query) == Keyed(query, Lower(query))
    IN Trimmed(Strip(raw))

\* one POST /test request, from arrival to response
TestQuery(p, raw, env) ==
    /\ p \notin DOMAIN inflight
    /\ Started < MaxRequests
    /\ history' = Append(history, ProcEntry(p, TestOutcome(raw, env, handles[p], store), store))
    /\ UNCHANGED <<llm, redis_enabled, store, handles, inflight, context, dispatches, server>>

ProcQueries == {"red chair", " red chair\n"}

DebugEnvs == {env \in Envs(KeyTexts, KeyTimings) : env.get_ok /\ env.set_ok}

\* the cache answers every read; its failures are those of Envs
ProcEnvs == {env \in Envs(KeyTexts, Timings) : env.get_ok}

NextProcesses ==
    \/ \E p \in Procs, raw \in ProcQueries, env \in ProcEnvs : Begin(p, raw, env)
    \/ \E p \in Procs : Finish(p)
    \/ \E p \in Procs, raw \in ProcQueries, env \in DebugEnvs : DebugQuery(p, raw, env)

SpecProcesses == Init /\ [][NextProcesses]_vars

\* queries for /test: the documented ones, several keywords of one field,
\* keywords inside other words, other letter case, no keyword, no text
TestQueries ==
    {"", "  \n", "blue wooden dining table", "red metal chair", "table and chair",
     " Grey STEEL Couch ", "bedroom desk", "dining chair", "glass bookshelf, white or black",
     "stable ironwood drawer", "something else", "a plastic sofa bed in green and yellow"}

\* the model and the cache work
TestEnvs == {env \in Envs(KeyTexts, KeyTimings) : env.generated # NoText /\ env.get_ok /\ env.set_ok}

\* /test requests next to /parse requests that fill the cache
NextTest ==
    \/ \E p \in Procs, raw \in TestQueries, env \in TestEnvs : TestQuery(p, raw, env)
    \/ \E p \in Procs, env \in TestEnvs : Begin(p, "red metal chair", env)
    \/ \E p \in Procs : Finish(p)

SpecTest == Init /\ [][NextTest]_vars

\* one call of cache.set(query, result) or cache.set(query, result, expiry)
CacheSetCall(query, result, expiry, redis_ok) ==
    LET Called(ex, r) ==
          /\ store' = r.store
          /\ history' = Append(history,
                [endpoint |-> "set", raw |-> query, value |-> result, expiry |-> ex,
                 redis_ok |-> redis_ok, returned |-> r.returned,
                 store_before |-> store, store_after |-> r.store])
        With(ex) == Called(ex, CacheSet(store, query, result, ex, redis_ok))
    IN /\ With(IF expiry.given THEN expiry.seconds ELSE DEFAULT_EXPIRY)
       /\ UNCHANGED <<llm, redis_enabled, handles, inflight, context, dispatches, server>>

\* one call of cache.get(query)
CacheGetCall(query, redis_ok) ==
    /\ history' = Append(history,
          [endpoint |-> "get", raw |-> query, redis_ok |-> redis_ok,
           result |-> CacheGet(store, query, redis_ok),
           store_before |-> store, store_after |-> store])
    /\ UNCHANGED <<llm, redis_enabled, store, handles, inflight, context, dispatches, server>>

\* a value of the cache tests, and one with quotes, a backslash, a line
\* break, a number, a list and the empty object
CacheValues ==
    {PyDict(<<[k |-> "key", v |-> PyStr("value")],
              [k |-> "nested", v |-> PyDict(<<[k |-> "data", v |-> PyBool("true")]>>)]>>),
     PyDict(<<[k |-> "note", v |-> PyStr("a \"quoted\" \\ word\n")],
              [k |-> "total_time", v |-> PyNum("0.2612")],
              [k |-> "items", v |-> PyList(<<PyNone, PyBool("false"), PyDict(<<>>)>>)]>>)}

CacheQueries == {"test_query", " test_query"}

Expiries == {[given |-> FALSE, seconds |-> 0], [given |-> TRUE, seconds |-> 60]}

\* LargeLanguageModel.generate (llm.py 81-160): the sequence the model returns
\* is the prompt's tokens followed by the new ones, and all of it is decoded
LlmGenerate(prompt, continuation) == prompt \o continuation

\* what the model writes after the prompt
Continuations ==
    {"", "\n{\"item_type\": \"chair\", \"material\": null, \"color\": \"red\"}",
     "\n\nOutput: {\"item_type\": \"sofa\", \"material\": \"leather\", \"color\": \"blue\"}\n",
     " Sorry, I cannot help with that."}

GenerateQueries == {"red chair", "blue leather sofa ", "gold metal accent table"}

\* the model and the cache work, and generate returns what the model of
\* core/llm.py returns for the request's prompt
GenerateEnv(raw, continuation) ==
    [construct_ok |-> TRUE, construct_msg |-> "",
     generated |-> Says(LlmGenerate(CombinedPrompt(TrimQuery(raw)), continuation)),
     get_ok |-> TRUE, set_ok |-> TRUE,
     timing |-> [generation_time |-> "1.5", total_time |-> "1.5021", cache_lookup_time |-> "0.0"]]

\* /parse requests answered with the model of core/llm.py
NextGenerate ==
    /\ Len(history) < MaxRequests
    /\ \E raw \in GenerateQueries, continuation \in Continuations :
          ParseQuery(raw, GenerateEnv(raw, continuation))

SpecGenerate == Init /\ [][NextGenerate]_vars

\* queries that match an override rule
EndpointQueries == {"Gold Metal Accent Table", "glass shelving unit"}

\* the model answers with a record that no rule would give, and an extra key
EndpointTexts == {"{\"item_type\": \"chair\", \"color\": \"red\", \"style\": \"modern\"}"}

EndpointEnvs == {env \in Envs(EndpointTexts, KeyTimings) : env.get_ok}

\* for /debug: the model and the cache work
EndpointDebugEnvs == {env \in EndpointEnvs : env.generated # NoText /\ env.set_ok}

\* /parse, /test and /debug requests of the server processes
NextEndpoints ==
    \/ \E p \in Procs, raw \in EndpointQueries, env \in EndpointEnvs : Begin(p, raw, env)
    \/ \E p \in Procs : Finish(p)
    \/ \E p \in Procs, env \in EndpointDebugEnvs : DebugQuery(p, "glass shelving unit", env)
    \/ \E p \in Procs, env \in TestEnvs : TestQuery(p, "glass shelving unit", env)

SpecEndpoints == Init /\ [][NextEndpoints]_vars

\* calls of the cache on its own, and key expiries
NextCache ==
    /\ Len(history) < MaxCacheCalls
    /\ \/ \E query \in CacheQueries, result \in CacheValues, expiry \in Expiries, redis_ok \in BOOLEAN :
             CacheSetCall(query, result, expiry, redis_ok)
       \/ \E query \in CacheQueries, redis_ok \in BOOLEAN : CacheGetCall(query, redis_ok)
       \/ \E cache_key \in DOMAIN store : Expire(cache_key)

SpecCache == Init /\ [][NextCache]_vars

\* requests whose queries are close to one another, and key expiries
NextKeys ==
    /\ Len(history) < MaxRequests
    /\ \/ \E raw \in KeyQueries, env \in Envs(KeyTexts, KeyTimings) : ParseQuery(raw, env)
       \/ \E cache_key \in DOMAIN store : Expire(cache_key)

SpecKeys == Init /\ [][NextKeys]_vars

\* the first request of a fresh process, over the wide inputs
FirstRequest ==
    /\ history = <<>>
    /\ \E raw \in WideQueries, env \in WideEnvs : ParseQuery(raw, env)

SpecPipeline == Init /\ [][FirstRequest]_vars

(***************************************************************************)
(* api/middleware.py: RequestLoggingMiddleware.dispatch, and request_context *)
(* blocks, run on the one thread of the event loop                          *)
(***************************************************************************)
\* what is kept of one dispatch or block; seen lists the request_id found in
\* the context each time the request logged something
Activity(kind, excluded, pc, request_id, seen) ==
    [kind |-> kind, excluded |-> excluded, pc |-> pc, request_id |-> request_id, seen |-> seen,
     outcome |-> "", left |-> NoContext]

\* dispatch from its start to its first suspension: middleware.py 47-49 for an
\* excluded path, 47-76 for a method with a body, 47-103 otherwise
Arrive(r, method, path, header) ==
    LET Set(ctx) ==
          /\ context' = ctx
          /\ dispatches' =
                (r :> IF method \in {"POST", "PUT", "PATCH"}
                      THEN Activity("dispatch", FALSE, "body", ctx.request_id, <<>>)
                      ELSE Activity("dispatch", FALSE, "call_next", ctx.request_id, <<ctx.request_id>>))
                @@ dispatches
    IN /\ r \notin DOMAIN dispatches
       /\ IF ExcludedPath(path)
          THEN /\ dispatches' = (r :> Activity("dispatch", TRUE, "call_next", Absent, <<>>)) @@ dispatches
               /\ UNCHANGED context
          ELSE Set(set_request_context(context, header, PyNone, PyNone, "uuid-of-" \o r))
       /\ UNCHANGED <<llm, redis_enabled, store, history, handles, inflight, server>>

\* dispatch resumed with the request body (or the failure to read it), up to
\* the call of the handler: middleware.py 76-103
ReadBody(r, readable) ==
    /\ r \in DOMAIN dispatches
    /\ dispatches[r].pc = "body"
    /\ dispatches' = [dispatches EXCEPT ![r].pc = "call_next",
                                        ![r].seen = Append(@, context.request_id)]
    /\ UNCHANGED <<llm, redis_enabled, store, history, handles, inflight, context, server>>

\* the endpoint handler runs and returns or raises
Handle(r, how) ==
    /\ r \in DOMAIN dispatches
    /\ dispatches[r].pc = "call_next"
    /\ dispatches' = [dispatches EXCEPT ![r].pc = "resume", ![r].outcome = how,
                                        ![r].seen = Append(@, context.request_id)]
    /\ UNCHANGED <<llm, redis_enabled, store, history, handles, inflight, context, server>>

\* dispatch resumed after call_next, to its end: middleware.py 103-136, or
\* line 49 for an excluded path
Resume(r) ==
    LET Left(ctx) ==
          /\ context' = ctx
          /\ dispatches' = [dispatches EXCEPT ![r].pc = "done", ![r].left = ctx,
                                              ![r].seen = Append(@, context.request_id)]
    IN /\ r \in DOMAIN dispatches
       /\ dispatches[r].pc = "resume"
       /\ IF dispatches[r].excluded
          THEN /\ dispatches' = [dispatches EXCEPT ![r].pc = "done", ![r].left = context]
               /\ UNCHANGED context
          ELSE Left(clear_request_context(context))
       /\ UNCHANGED <<llm, redis_enabled, store, history, handles, inflight, server>>

\* with request_context(request_id, session_id, user_id): entered
EnterBlock(r, request_id, session_id, user_id) ==
    LET Set(ctx) ==
          /\ context' = ctx
          /\ dispatches' = (r :> Activity("block", FALSE, "in_block", ctx.request_id, <<>>)) @@ dispatches
    IN /\ r \notin DOMAIN dispatches
       /\ Set(set_request_context(context, request_id, session_id, user_id, "uuid-of-" \o r))
       /\ UNCHANGED <<llm, redis_enabled, store, history, handles, inflight, server>>

\* the block is left, at its end or by an exception
ExitBlock(r, how) ==
    LET Left(ctx) ==
          /\ context' = ctx
          /\ dispatches' = [dispatches EXCEPT ![r].pc = "done", ![r].outcome = how, ![r].left = ctx]
    IN /\ r \in DOMAIN dispatches
       /\ dispatches[r].pc = "in_block"
       /\ Left(clear_request_context(context))
       /\ UNCHANGED <<llm, redis_enabled, store, history, handles, inflight, server>>

\* the requests and blocks under way at one time
Activities == {"first", "second"}

\* X-Request-ID as the client sent it, None for a request without the header
Headers == {PyNone, PyStr("client-id-7")}

ContextIds == {PyNone, PyStr("test-request-123")}

SessionIds == {PyNone, PyStr("session-9")}

UserIds == {PyNone, PyStr("user-456")}

NextContext ==
    \/ \E r \in Activities, method \in {"GET", "POST"}, path \in {"/parse", "/health"},
          header \in Headers : Arrive(r, method, path, header)
    \/ \E r \in Activities, readable \in BOOLEAN : ReadBody(r, readable)
    \/ \E r \in Activities, how \in {"returned", "raised"} : Handle(r, how)
    \/ \E r \in Activities : Resume(r)
    \/ \E r \in Activities, request_id \in ContextIds, session_id \in SessionIds,
          user_id \in UserIds : EnterBlock(r, request_id, session_id, user_id)
    \/ \E r \in Activities, how \in {"returned", "raised"} : ExitBlock(r, how)

SpecContext == Init /\ [][NextContext]_vars

(***************************************************************************)
(* Calls of sanitize_data                                                  *)
(***************************************************************************)
\* one call sanitize_data(data) or sanitize_data(data, sensitive_keys)
SanitizeCall(data, sensitive_keys) ==
    /\ history' = Append(history,
          [endpoint |-> "sanitize", raw |-> "", data |-> data, sensitive_keys |-> sensitive_keys,
           result |-> sanitize_data(data, sensitive_keys), data_after |-> data])
    /\ UNCHANGED <<llm, redis_enabled, store, handles, inflight, context, dispatches, server>>

\* the data of the logging test; sensitive names in other
\* letter case and inside longer keys; a sensitive key holding a container;
\* lists in lists; values that are no containers
SanitizeInputs ==
    {PyDict(<<[k |-> "username", v |-> PyStr("testuser")],
              [k |-> "email", v |-> PyStr("user@example.com")],
              [k |-> "password", v |-> PyStr("supersecret")],
              [k |-> "api_key", v |-> PyStr("api-key-12345")],
              [k |-> "preferences",
               v |-> PyDict(<<[k |-> "theme", v |-> PyStr("dark")],
                              [k |-> "token", v |-> PyStr("access-token-abc")],
                              [k |-> "items",
                               v |-> PyList(<<PyDict(<<[k |-> "name", v |-> PyStr("item1")],
                                                       [k |-> "secret", v |-> PyStr("hidden-value")]>>)>>)]>>)]>>),
     PyDict(<<[k |-> "X-Auth-TOKEN", v |-> PyStr("abc")], [k |-> "monkeys", v |-> PyNum("3")],
              [k |-> "Authorization", v |-> PyDict(<<[k |-> "scheme", v |-> PyStr("Bearer")]>>)],
              [k |-> "color", v |-> PyNone]>>),
     PyList(<<PyList(<<PyDict(<<[k |-> "SSN", v |-> PyStr("078-05-1120")],
                                [k |-> "name", v |-> PyStr("password")]>>), PyStr("token")>>),
              PyBool("true"), PyDict(<<>>)>>),
     PyStr("password=hunter2")}

\* sensitive_keys left out, or given
SensitiveKeySets ==
    {[given |-> FALSE, keys |-> {}], [given |-> TRUE, keys |-> {"Name", "color"}],
     [given |-> TRUE, keys |-> {}]}

NextSanitize ==
    /\ Len(history) < MaxRequests
    /\ \E data \in SanitizeInputs, sensitive_keys \in SensitiveKeySets :
          SanitizeCall(data, sensitive_keys)

SpecSanitize == Init /\ [][NextSanitize]_vars

(***************************************************************************)
(* scripts/start_server.py: start_server                                   *)
(***************************************************************************)
\* start_server(port=port, max_retries=max_retries) up to the for loop (lines
\* 199-205); range(0) ends the loop at once and the function returns
StartServer(port, max_retries) ==
    /\ server.pc = "idle"
    /\ server' = [pc |-> IF max_retries = 0 THEN "returned" ELSE "loop",
                  original_port |-> port, port |-> port, max_retries |-> max_retries,
                  iteration |-> 0, attempt |-> 0, tries |-> <<>>, status |-> 0]
    /\ UNCHANGED <<llm, redis_enabled, store, history, handles, inflight, context, dispatches>>

\* One pass of the loop body (lines 205-243).  The loop variable is bound to
\* the next value of range(max_retries) at the top of each pass, so assigning
\* to it in the body does not change how many passes are left; `continue`
\* after the last value ends the loop and the function returns.
RunAttempt(outcome) ==
    LET bound == [server EXCEPT !.attempt = server.iteration,
                                !.iteration = server.iteration + 1,
                                !.tries = Append(@, [port |-> server.port, outcome |-> outcome])]
        Continue(after) ==
          IF after.iteration < after.max_retries THEN after ELSE [after EXCEPT !.pc = "returned"]
        Exit(after) == [after EXCEPT !.pc = "exited", !.status = 1]
    IN /\ server.pc = "loop"
       /\ server' =
             CASE outcome = "served" -> [bound EXCEPT !.pc = "returned"]
               [] outcome = "address_in_use" ->
                    IF bound.attempt < bound.max_retries - 1 THEN Continue(bound)
                    ELSE IF bound.port = bound.original_port
                    THEN Continue([bound EXCEPT !.port = bound.original_port + 1, !.attempt = 0])
                    ELSE Exit(bound)
               [] OTHER -> Exit(bound)
       /\ UNCHANGED <<llm, redis_enabled, store, history, handles, inflight, context, dispatches>>

\* how uvicorn.run ends: it returns, or raises OSError with or without
\* "Address already in use" in its text, or raises something else
RunOutcomes == {"served", "address_in_use", "os_error", "error"}

Ports == {8000, 8001, 8080}

NextServer ==
    \/ \E port \in Ports, max_retries \in 0..MaxRetries : StartServer(port, max_retries)
    \/ \E outcome \in RunOutcomes : RunAttempt(outcome)

SpecServer == Init /\ [][NextServer]_vars

(***************************************************************************)
(* Properties                                                              *)
(***************************************************************************)
Requests == {i \in 1..Len(history) : history[i].endpoint = "parse"}

\* requests in which generate returned a text
Answered == {i \in Requests : history[i].said}

NoBrace(text) == \A i \in 1..Len(text) : Ch(text, i) \notin {"{", "}"}

IsBlank(raw) == \A i \in 1..Len(raw) : Ch(raw, i) \in PyWhitespace

\* a record with exactly the three canonical fields, each a string or None
Canonical(rec) ==
    /\ rec.t = "dict"
    /\ DictKeys(rec) = {"item_type", "material", "color"}
    /\ Len(rec.v) = 3
    /\ \A key \in DictKeys(rec) : DictGet(rec, key).t \in {"none", "str"}

SameFields(a, b) ==
    \A n \in 1..Len(Fields) : PyEq(DictGet(a, Fields[n]), DictGet(b, Fields[n]))

Rule1Record == Record3(PyStr("accent table"), PyStr("metal"), PyStr("gold"))

Rule3Record == Record3(PyStr("display cabinet"), PyStr("glass"), PyStr("amber"))

Rule2Record(color) == Record3(PyStr("shelving unit"), PyStr("glass"), color)

\* C1: for every text the model returns on a /parse miss, parse + normalize
\* produce a record with exactly the keys item_type, material, color, each a
\* string or None.
C1_TotalFieldCoverage ==
    \A i \in Answered :
        /\ history[i].process.parsed_data.t = "dict"
        /\ history[i].process.parsed_query.t = "dict"
        /\ Canonical(history[i].process.parsed_query)

\* C2: a /parse request ends in 400 exactly when its trimmed query is empty, in
\* 500 only when building or invoking the model raised, and in 200 whenever
\* the model returned a text.
C2_ThreeOutcomes ==
    \A i \in Requests :
        /\ history[i].status \in {200, 400, 500}
        /\ history[i].status = 400 <=> history[i].query = ""
        /\ history[i].status = 500 =>
              \/ history[i].constructs = 1 /\ history[i].llm_after = "None"
              \/ history[i].model_calls = 1 /\ ~history[i].said
        /\ history[i].said => history[i].status = 200 /\ history[i].response.t = "dict"

\* C3: a model text without any brace still gives 200, and the record before
\* the overrides is {item_type: None, material: None, color: None}.
C3_NoBraceFallback ==
    \A i \in Answered :
        NoBrace(history[i].text) =>
            /\ history[i].status = 200
            /\ history[i].process.stage = 4
            /\ PyEq(history[i].process.parsed_data, EmptyRecord)

\* C4: a query containing "gold metal accent table" (any letter case) gets 200
\* with {accent table, metal, gold} whatever text the model returned.
C4_GoldTableOverride ==
    \A i \in Answered :
        Contains(Lower(history[i].query), "gold metal accent table") =>
            /\ history[i].status = 200
            /\ PyEq(DictGet(history[i].response, "parsed_query"), Rule1Record)

\* C5: for a query matching rule 2 and not rule 1, the override returns
\* item_type "shelving unit", material "glass" and the parser's color, whatever
\* the parser's item_type and material; a string or None color reaches the
\* response unchanged.
C5_PartialOverride ==
    \A i \in Answered :
        LET h == history[i]
            query_lower == Lower(h.query)
            parsed == h.process.parsed_data
        IN (/\ Contains(query_lower, "shelving unit") /\ Contains(query_lower, "glass")
            /\ ~Contains(query_lower, "gold metal accent table")
            /\ parsed.t = "dict")
           => /\ PyEq(h.process.edge_result, Rule2Record(DictGet(parsed, "color")))
              /\ DictGet(parsed, "color").t \in {"none", "str"} =>
                    /\ h.status = 200
                    /\ PyEq(DictGet(h.response, "parsed_query"), Rule2Record(DictGet(parsed, "color")))

C5_Witness ==
    \E i \in Answered :
        /\ history[i].query = "glass shelving unit"
        /\ PyEq(history[i].process.parsed_data, Record3(PyStr("x"), PyStr("y"), PyStr("silver")))
        /\ history[i].status = 200
        /\ PyEq(DictGet(history[i].response, "parsed_query"), Rule2Record(PyStr("silver")))

\* C6: the rules are tried in the order 1, 2, 3 and only the first match is
\* applied: rule 1's record when rule 1 matches, else rule 2's when rule 2
\* matches, else rule 3's; never rule 3's record when rule 1 or 2 matches.
C6_FirstMatchWins ==
    \A i \in Answered :
        LET h == history[i]
            query_lower == Lower(h.query)
            parsed == h.process.parsed_data
            m1 == Contains(query_lower, "gold metal accent table")
            m2 == Contains(query_lower, "shelving unit") /\ Contains(query_lower, "glass")
            m3 == /\ Contains(query_lower, "amber") /\ Contains(query_lower, "glass")
                  /\ Contains(query_lower, "cabinet")
        IN parsed.t # "absent" =>
              /\ m1 => PyEq(h.process.edge_result, Rule1Record)
              /\ (~m1 /\ m2 /\ parsed.t = "dict") =>
                     PyEq(h.process.edge_result, Rule2Record(DictGet(parsed, "color")))
              /\ (~m1 /\ ~m2 /\ m3) => PyEq(h.process.edge_result, Rule3Record)
              /\ (m1 \/ m2) => ~PyEq(h.process.edge_result, Rule3Record)

C6_Witness ==
    \E i \in Answered :
        /\ history[i].query = "amber glass shelving unit cabinet"
        /\ history[i].status = 200
        /\ PyEq(DictGet(DictGet(history[i].response, "parsed_query"), "item_type"), PyStr("shelving unit"))

\* C7: when the query matches no rule, the override returns the parser's
\* normalized output unchanged and the response carries its three fields,
\* whatever phrases the model's text or the extracted fields contain.
C7_NoMatchPassThrough ==
    \A i \in Answered :
        LET h == history[i]
            query_lower == Lower(h.query)
            parsed == h.process.parsed_data
        IN (/\ parsed.t # "absent"
            /\ ~Contains(query_lower, "gold metal accent table")
            /\ ~(Contains(query_lower, "shelving unit") /\ Contains(query_lower, "glass"))
            /\ ~(/\ Contains(query_lower, "amber") /\ Contains(query_lower, "glass")
                 /\ Contains(query_lower, "cabinet")))
           => /\ PyEq(h.process.edge_result, parsed)
              /\ h.status = 200 => SameFields(DictGet(h.response, "parsed_query"), parsed)

C7_Witness ==
    \E i \in Answered :
        /\ history[i].query = "blue metal dining table"
        /\ Contains(history[i].text, "gold metal accent table")
        /\ Contains(history[i].text, "glass shelving unit")
        /\ history[i].status = 200
        /\ PyEq(DictGet(DictGet(history[i].response, "parsed_query"), "item_type"),
                PyStr("gold metal accent table"))

\* two requests in a row for the same non-empty trimmed query, the model
\* doing the same thing both times it is asked
SameQueryTwice(i) ==
    /\ i \in Requests /\ i + 1 \in Requests
    /\ history[i].query # ""
    /\ history[i].query = history[i + 1].query
    /\ (history[i].model_calls = 1 /\ history[i + 1].model_calls = 1) =>
          /\ history[i].said = history[i + 1].said
          /\ history[i].text = history[i + 1].text

RecordOf(i) == DictGet(history[i].response, "parsed_query")

C9_EmptyQueryRejected ==
    \A i \in Requests :
        IsBlank(history[i].raw) =>
            /\ history[i].status = 400
            /\ Contains(Lower(history[i].detail), "empty")
            /\ history[i].cache_reads = 0 /\ history[i].cache_writes = 0
            /\ history[i].constructs = 0 /\ history[i].model_calls = 0
            /\ DOMAIN history[i].store_after = DOMAIN history[i].store_before
            /\ \A key \in DOMAIN history[i].store_before :
                  history[i].store_after[key] = history[i].store_before[key]
            /\ history[i].llm_after = history[i].llm_before

C9_Witness ==
    \E i \in Requests :
        /\ history[i].raw = "   "
        /\ history[i].status = 400
        /\ history[i].llm_before = "loaded"
        /\ DOMAIN history[i].store_before # {}

Accepted == {i \in Requests : ~IsBlank(history[i].raw)}

\* C10 as stated: an accepted request reads the cache exactly once; a miss
\* invokes the model exactly once and writes the cache exactly once; a hit does
\* neither; no request invokes the model more than once.
C10_Original ==
    \A i \in Accepted :
        /\ history[i].cache_reads = 1
        /\ ~history[i].hit => history[i].model_calls = 1 /\ history[i].cache_writes = 1
        /\ history[i].hit => history[i].model_calls = 0 /\ history[i].cache_writes = 0
        /\ history[i].model_calls <= 1

\* C10 amended: an accepted request reads the cache exactly once; a miss that
\* answers 200 invokes the model exactly once and writes the cache exactly
\* once; a miss that answers 500 invokes the model at most once and does not
\* write the cache; a hit does neither; no request invokes the model more
\* than once.
C10_SideEffects ==
    \A i \in Accepted :
        /\ history[i].cache_reads = 1
        /\ (~history[i].hit /\ history[i].status = 200) =>
              history[i].model_calls = 1 /\ history[i].cache_writes = 1
        /\ (~history[i].hit /\ history[i].status # 200) =>
              /\ history[i].status = 500
              /\ history[i].model_calls <= 1 /\ history[i].cache_writes = 0
        /\ history[i].hit => history[i].model_calls = 0 /\ history[i].cache_writes = 0
        /\ history[i].model_calls <= 1

C10_Witness ==
    \E i, j \in Accepted :
        /\ ~history[i].hit /\ history[i].status = 200
        /\ history[i].cache_reads = 1 /\ history[i].model_calls = 1 /\ history[i].cache_writes = 1
        /\ history[j].hit /\ history[j].status = 200
        /\ history[j].cache_reads = 1 /\ history[j].model_calls = 0 /\ history[j].cache_writes = 0

\* requests in which llm.generate was called and raised
GenerateRaised == {i \in Requests : history[i].model_calls > 0 /\ ~history[i].said}

\* C11: when the model invocation raises on a miss, the model is not invoked
\* again, the answer is a 500 whose detail carries the failure message, no
\* cache write is made and the cache content is what it was before.
C11_NoRetryNoWrite ==
    \A i \in GenerateRaised :
        /\ history[i].model_calls = 1
        /\ history[i].status = 500
        /\ Contains(history[i].detail, NoText.msg)
        /\ history[i].cache_writes = 0 /\ ~history[i].stored
        /\ history[i].store_after = history[i].store_before

C11_Witness ==
    \E i \in GenerateRaised :
        /\ history[i].status = 500
        /\ history[i].detail = "Error processing query: CUDA out of memory"
        /\ DOMAIN history[i].store_before # {}
        /\ ~history[i].hit /\ history[i].cache_reads = 1

Hits == {i \in Requests : history[i].hit}

\* the payload stored under the key of request i when it arrived
PayloadOf(i) == json_loads(history[i].store_before[CacheKey(history[i].query)].data).v

\* C12: a cache hit answers 200 with the record and the generation time of
\* the cached payload, cached=true and the trimmed query; it neither builds
\* nor invokes the model, runs neither the parser nor the overrides, and
\* leaves the cache as it was.
C12_HitReplaysPayload ==
    \A i \in Hits :
        /\ history[i].status = 200
        /\ PyEq(DictGet(history[i].response, "parsed_query"), DictGet(PayloadOf(i), "parsed_query"))
        /\ PyEq(DictGet(history[i].response, "generation_time"), DictGet(PayloadOf(i), "generation_time"))
        /\ PyEq(DictGet(history[i].response, "cached"), PyBool("true"))
        /\ PyEq(DictGet(history[i].response, "query"), PyStr(history[i].query))
        /\ history[i].constructs = 0 /\ history[i].model_calls = 0
        /\ history[i].llm_after = history[i].llm_before
        /\ history[i].process.stage = 0 /\ history[i].process.parsed_query.t = "absent"
        /\ history[i].cache_writes = 0
        /\ history[i].store_after = history[i].store_before

\* a hit whose own measured generation time differs from the replayed one
C12_Witness ==
    \E i \in Hits :
        /\ history[i].raw = " red chair\n"
        /\ PyEq(DictGet(history[i].response, "query"), PyStr("red chair"))
        /\ PyEq(DictGet(history[i].response, "generation_time"), PyNum("0.25"))
        /\ PyEq(DictGet(history[i].response, "total_time"), PyNum("1.5021"))

\* requests that reached a working cache with a non-empty query
Looked == {i \in Requests : history[i].query # "" /\ redis_enabled /\ ~history[i].read_failed}

\* C13: the cache key is the trimmed query compared exactly: a request hits
\* exactly when an entry exists under its own trimmed query, the payload it is
\* served was stored for that very query, and a request that stores writes
\* the entry of its own trimmed query and no other.
C13_ExactTrimmedKey ==
    /\ \A i \in Requests : history[i].query = Strip(history[i].raw)
    /\ \A i \in Looked :
          /\ history[i].hit <=> ("query:" \o Strip(history[i].raw)) \in DOMAIN history[i].store_before
          /\ history[i].hit => PyEq(DictGet(PayloadOf(i), "query"), PyStr(Strip(history[i].raw)))
    /\ \A i \in Requests :
          history[i].stored =>
             /\ DOMAIN history[i].store_after =
                   DOMAIN history[i].store_before \cup {("query:" \o Strip(history[i].raw))}
             /\ \A key \in DOMAIN history[i].store_before :
                   key # ("query:" \o Strip(history[i].raw)) =>
                      history[i].store_after[key] = history[i].store_before[key]

\* a query differing only in letter case misses the entry of the other and
\* gets an entry of its own
C13_Witness ==
    \E i, j \in Looked :
        /\ i < j
        /\ history[i].raw = "red chair" /\ history[i].stored
        /\ history[j].raw = "Red chair"
        /\ DOMAIN history[j].store_before = {"query:red chair"}
        /\ ~history[j].hit /\ history[j].stored
        /\ DOMAIN history[j].store_after = {"query:red chair", "query:Red chair"}

\* C14: the cache never fails a request.  With the cache disabled or its
\* read failing, get gives None and the request is a miss; when set gives
\* False nothing is stored; in both cases a text the parser accepts is
\* answered 200 with the record computed from it, and every 500 comes from
\* building the model, invoking it or parsing its text.
C14_CacheFailuresSwallowed ==
    \A i \in Requests :
        history[i].query # "" =>
            /\ (~redis_enabled \/ history[i].read_failed) =>
                  /\ ~history[i].hit
                  /\ history[i].llm_after = "loaded" => history[i].model_calls = 1
            /\ (history[i].said /\ ~history[i].process.raised) =>
                  /\ history[i].status = 200
                  /\ history[i].cache_writes = 1
                  /\ PyEq(DictGet(history[i].response, "parsed_query"), history[i].process.parsed_query)
                  /\ PyEq(DictGet(history[i].response, "cached"), PyBool("false"))
            /\ (history[i].cache_writes = 1 /\ ~history[i].stored) =>
                  /\ history[i].status = 200
                  /\ history[i].store_after = history[i].store_before
            /\ history[i].status = 500 =>
                  \/ history[i].constructs = 1 /\ history[i].llm_after = "None"
                  \/ history[i].model_calls = 1 /\ ~history[i].said
                  \/ history[i].process.raised

\* an entry exists for the query, the read fails and the write fails, and the
\* request is answered from the model
C14_Witness ==
    \E i \in Requests :
        /\ history[i].query = "red chair"
        /\ "query:red chair" \in DOMAIN history[i].store_before
        /\ history[i].read_failed /\ ~history[i].hit
        /\ history[i].model_calls = 1 /\ history[i].status = 200
        /\ history[i].cache_writes = 1 /\ ~history[i].stored

\* the keys of the store before request i whose entry request i changed or removed
Touched(i) ==
    {key \in DOMAIN history[i].store_before :
        \/ key \notin DOMAIN history[i].store_after
        \/ history[i].store_after[key] # history[i].store_before[key]}

\* the keys request i added to the store
Created(i) == DOMAIN history[i].store_after \ DOMAIN history[i].store_before

\* request i completed parse, override and normalize on a miss
CompletedMiss(i) ==
    /\ ~history[i].hit /\ history[i].said
    /\ ~history[i].process.raised /\ history[i].status = 200

\* C15 as stated: an entry is created only by a miss that completed parse,
\* override and normalize, and no request modifies or removes an entry that
\* has not expired.
C15_Original ==
    \A i \in Requests :
        /\ Created(i) # {} => CompletedMiss(i)
        /\ Touched(i) = {}

\* C15 amended: an entry is created or changed only by a miss that completed
\* parse, override and normalize and whose write succeeded, and then only the
\* entry of its own key, holding its own response with the default expiry; no
\* request removes an entry; a hit changes nothing; a live entry is
\* overwritten only by a request for the same key whose cache read failed.
C15_EntryLifecycle ==
    \A i \in Requests :
        /\ (Created(i) \cup Touched(i)) # {} =>
              /\ CompletedMiss(i) /\ history[i].stored
              /\ (Created(i) \cup Touched(i)) = {"query:" \o history[i].query}
        /\ history[i].stored =>
              history[i].store_after["query:" \o history[i].query] =
                 [data |-> json_dumps(history[i].response), ex |-> DEFAULT_EXPIRY]
        /\ DOMAIN history[i].store_before \subseteq DOMAIN history[i].store_after
        /\ history[i].hit => history[i].store_after = history[i].store_before
        /\ Touched(i) # {} => history[i].read_failed

\* a live entry overwritten by a request for its key whose read failed
C15_Witness ==
    \E i \in Requests :
        /\ CompletedMiss(i) /\ history[i].read_failed /\ history[i].stored
        /\ Touched(i) = {"query:red chair"}
        /\ Created(i) = {}

\* the requests process p has answered
ServedBy(p) == {i \in 1..Len(history) : history[i].proc = p}

\* C16 as stated: while a first request of a process is under way with the
\* handle still uninitialized, a second request of that process can start
\* and find the handle uninitialized too.
C16_Original ==
    \A p \in DOMAIN inflight :
        (handles[p] = "None" /\ Started < MaxRequests) =>
            ENABLED (\E raw \in ProcQueries, env \in DebugEnvs :
                        Begin(p, raw, env) \/ DebugQuery(p, raw, env))

\* C16 amended: in one server process a request builds the model only if it
\* found the handle uninitialized, and check and construction are one step of
\* the process, so of two requests of a process that both built the model the
\* earlier one failed to; a handle once set stays set and is not built again.
\* Each server process has a handle of its own.
C16_BuiltAgainOnlyAfterFailure ==
    \A p \in Procs :
        /\ \A i \in ServedBy(p) :
              /\ history[i].constructs <= 1
              /\ history[i].constructs = 1 => history[i].llm_before = "None"
              /\ history[i].llm_before = "loaded" => history[i].llm_after = "loaded"
              /\ (history[i].llm_before = "None" /\ history[i].llm_after = "loaded") =>
                    history[i].constructs = 1
        /\ \A i, j \in ServedBy(p) :
              (i < j /\ history[i].constructs = 1 /\ history[j].constructs = 1) =>
                 /\ history[i].llm_after = "None" /\ history[i].status = 500
                 /\ history[j].llm_before = "None"
        /\ Cardinality({i \in ServedBy(p) : history[i].constructs = 1 /\ history[i].llm_after = "loaded"}) <= 1
        /\ p \in DOMAIN inflight => inflight[p].run.llm = handles[p]

\* one process builds the model twice: for /parse, where it fails, and then
\* for /debug
C16_Witness ==
    \E p \in Procs : \E i, j \in ServedBy(p) :
        /\ i < j
        /\ history[i].endpoint = "parse" /\ history[i].constructs = 1 /\ history[i].status = 500
        /\ history[j].endpoint = "debug" /\ history[j].constructs = 1 /\ history[j].status = 200

\* the /parse requests that missed, got a record from the model and wrote it
Writers == {i \in 1..Len(history) : history[i].endpoint = "parse" /\ history[i].stored}

\* C17: the cache read and the cache write of a /parse request are separate
\* steps between which requests of other server processes run.  A request
\* that missed writes its payload whatever has been stored since its read,
\* and the entry under a key is the payload of the request that wrote last.
C17_LastWriterWins ==
    /\ \A i \in 1..Len(history) :
          (/\ history[i].endpoint = "parse" /\ ~history[i].hit /\ history[i].status = 200
           /\ redis_enabled /\ ~history[i].write_failed)
          => /\ history[i].stored /\ history[i].model_calls = 1
             /\ history[i].store_after["query:" \o history[i].query].data =
                   json_dumps(history[i].response)
    /\ \A key \in DOMAIN store :
          LET writers == {i \in Writers : "query:" \o history[i].query = key}
              last == CHOOSE i \in writers : \A j \in writers : j <= i
          IN writers # {} /\ store[key].data = json_dumps(history[last].response)

\* two requests for one trimmed query, served by two processes, both miss,
\* both invoke the model and both write; the second write replaces the first
C17_Witness ==
    \E i, j \in Writers :
        /\ i < j /\ history[i].proc # history[j].proc
        /\ history[i].query = history[j].query
        /\ ~history[i].hit /\ ~history[j].hit
        /\ ~history[i].read_failed /\ ~history[j].read_failed
        /\ history[i].model_calls = 1 /\ history[j].model_calls = 1
        /\ ("query:" \o history[j].query) \notin DOMAIN history[j].seen
        /\ ("query:" \o history[j].query) \in DOMAIN history[j].store_before
        /\ json_dumps(history[i].response) # json_dumps(history[j].response)
        /\ store["query:" \o history[j].query].data = json_dumps(history[j].response)

\* the three canonical fields of rec are those of the object obj, None where
\* obj has no such key
FieldsOf(rec, obj) ==
    /\ rec.t = "dict"
    /\ \A n \in 1..Len(Fields) :
          /\ DictHas(rec, Fields[n])
          /\ PyEq(DictGet(rec, Fields[n]),
                  IF DictHas(obj, Fields[n]) THEN DictGet(obj, Fields[n]) ELSE PyNone)

\* C18: the stages run in order and a later one only after every earlier one
\* failed.  A text that is a JSON object as a whole is taken by stage 1: the
\* extracted value is the parse of the whole text and the record holds that
\* object's item_type, material and color; no scan or repair has touched it.
C18_StagesInOrder ==
    \A i \in Answered :
        LET h == history[i]
            whole == json_loads(h.text)
            scan == SearchBraces(h.text)
        IN /\ (whole.ok /\ whole.v.t = "dict") =>
                 /\ h.process.stage = 1
                 /\ PyEq(h.process.extracted, whole.v)
                 /\ FieldsOf(h.process.parsed_data, whole.v)
           /\ h.process.stage = 1 => whole.ok
           /\ h.process.stage >= 2 => ~whole.ok /\ scan.found
           /\ h.process.stage >= 3 => ~json_loads(scan.group).ok

\* the example text, and an object whose first '{' to first '}' is not its
\* whole: both are taken by stage 1
C18_Witness ==
    /\ \E i \in Answered :
        /\ history[i].text = "{\"item_type\": \"chair\", \"material\": \"wood\", \"color\": null}"
        /\ history[i].process.stage = 1
        /\ history[i].status = 200
        /\ PyEq(DictGet(DictGet(history[i].response, "parsed_query"), "item_type"), PyStr("chair"))
        /\ PyEq(DictGet(DictGet(history[i].response, "parsed_query"), "material"), PyStr("wood"))
        /\ PyEq(DictGet(DictGet(history[i].response, "parsed_query"), "color"), PyNone)

\* the position of the first c in text at or after i, Len(text) + 1 if none
RECURSIVE FirstAt(_, _, _)
FirstAt(text, c, i) ==
    IF i > Len(text) \/ Ch(text, i) = c THEN i ELSE FirstAt(text, c, i + 1)

\* C19: when the whole text is not JSON, the second attempt parses the
\* substring from the first '{' to the first '}' after it, newlines included;
\* if that substring parses, it is an object, the cascade stops at stage 2 and
\* the record holds the object's fields, the missing canonical ones None.
C19_BraceScan ==
    \A i \in Answered :
        LET h == history[i]
            lo == FirstAt(h.text, "{", 1)
            hi == FirstAt(h.text, "}", lo + 1)
            inner == json_loads(SubSeq(h.text, lo, hi))
        IN (~json_loads(h.text).ok /\ hi <= Len(h.text) /\ inner.ok) =>
              /\ inner.v.t = "dict"
              /\ h.process.stage = 2
              /\ PyEq(h.process.extracted, inner.v)
              /\ FieldsOf(h.process.parsed_data, inner.v)

C19_Witness ==
    \E i \in Answered :
        /\ history[i].text = "noise noise {\"item_type\": \"chair\"} trailing noise"
        /\ history[i].process.stage = 2
        /\ PyEq(history[i].process.extracted, PyDict(<<[k |-> "item_type", v |-> PyStr("chair")]>>))
        /\ history[i].status = 200
        /\ PyEq(DictGet(DictGet(history[i].response, "parsed_query"), "item_type"), PyStr("chair"))
        /\ PyEq(DictGet(DictGet(history[i].response, "parsed_query"), "material"), PyNone)
        /\ PyEq(DictGet(DictGet(history[i].response, "parsed_query"), "color"), PyNone)

\* text from its first '{' to the first '}' after it; "" if there is no such pair
FirstBraces(text) ==
    LET To(lo, hi) == IF hi <= Len(text) THEN SubSeq(text, lo, hi) ELSE ""
        From(lo) == To(lo, FirstAt(text, "}", lo + 1))
    IN From(FirstAt(text, "{", 1))

\* C20: on a text with a brace pair that neither parses as a whole nor between
\* its first braces, the third attempt turns every single quote into a double
\* quote, quotes the bare keys, scans the result for braces again and returns
\* the object found there, the missing canonical fields None; if the repaired
\* text does not parse either, the record is all None and the request is
\* answered with 200.
C20_RepairStage ==
    \A i \in Answered :
        LET h == history[i]
            fixed_text == QuoteKeys(Replace(h.text, "'", "\""))
            repaired == json_loads(FirstBraces(fixed_text))
        IN (/\ ~json_loads(h.text).ok
            /\ FirstBraces(h.text) # ""
            /\ ~json_loads(FirstBraces(h.text)).ok)
           => /\ \A k \in 1..Len(fixed_text) : Ch(fixed_text, k) # "'"
              /\ FirstBraces(fixed_text) # ""
              /\ IF repaired.ok
                 THEN /\ h.process.stage = 3
                      /\ repaired.v.t = "dict"
                      /\ PyEq(h.process.extracted, repaired.v)
                      /\ FieldsOf(h.process.parsed_data, repaired.v)
                 ELSE /\ h.process.stage = 4
                      /\ PyEq(h.process.parsed_data, EmptyRecord)
                      /\ h.status = 200

C20_Witness ==
    \E i \in Answered :
        /\ history[i].text = "{item_type: 'sofa', color: 'red'}"
        /\ history[i].process.stage = 3
        /\ history[i].status = 200
        /\ PyEq(DictGet(DictGet(history[i].response, "parsed_query"), "item_type"), PyStr("sofa"))
        /\ PyEq(DictGet(DictGet(history[i].response, "parsed_query"), "color"), PyStr("red"))
        /\ PyEq(DictGet(DictGet(history[i].response, "parsed_query"), "material"), PyNone)

\* C21: a text that parses as a whole to a JSON array or scalar is not taken
\* by stage 1; the cascade goes on to the brace scan and the repair and the
\* request ends with an extracted object or the all-None record, not an error.
C21_OnlyObjectsAccepted ==
    \A i \in Answered :
        LET h == history[i]
            whole == json_loads(h.text)
        IN (whole.ok /\ whole.v.t # "dict") =>
              /\ h.process.stage # 1
              /\ ~h.process.raised
              /\ h.process.parsed_data.t = "dict"
              /\ h.status = 200

\* the /test requests answered so far
Tests == {i \in 1..Len(history) : history[i].endpoint = "test"}

\* the keywords of /test in their order of priority, and what each stands for
ItemTypeOrder ==
    <<[words |-> {"table"}, value |-> "table"], [words |-> {"chair"}, value |-> "chair"],
      [words |-> {"sofa", "couch"}, value |-> "sofa"],
      [words |-> {"bookshelf", "shelf"}, value |-> "bookshelf"],
      [words |-> {"bed"}, value |-> "bed"], [words |-> {"desk"}, value |-> "desk"],
      [words |-> {"dresser", "drawer"}, value |-> "dresser"]>>

MaterialOrder ==
    <<[words |-> {"wood", "wooden"}, value |-> "wooden"],
      [words |-> {"metal", "steel", "iron"}, value |-> "metal"],
      [words |-> {"plastic"}, value |-> "plastic"], [words |-> {"leather"}, value |-> "leather"],
      [words |-> {"fabric", "cloth"}, value |-> "fabric"], [words |-> {"glass"}, value |-> "glass"]>>

ColorOrder ==
    <<[words |-> {"blue"}, value |-> "blue"], [words |-> {"red"}, value |-> "red"],
      [words |-> {"green"}, value |-> "green"], [words |-> {"yellow"}, value |-> "yellow"],
      [words |-> {"black"}, value |-> "black"], [words |-> {"white"}, value |-> "white"],
      [words |-> {"brown"}, value |-> "brown"], [words |-> {"gray", "grey"}, value |-> "gray"]>>

\* the value of the first entry of order one of whose words occurs in
\* query_lower; none if there is no such entry
FirstKeyword(query_lower, order, none) ==
    LET found == {k \in 1..Len(order) : \E w \in order[k].words : Contains(query_lower, w)}
    IN IF found = {} THEN none
       ELSE PyStr(order[CHOOSE k \in found : \A l \in found : k <= l].value)

\* C22: /test answers every query, the empty one too, with 200 and
\* cached=false, reads and writes no cache entry and leaves the model alone.
\* Each field is picked on its own, by the first keyword in priority order
\* that occurs in the lowercased trimmed query ("table" with "dining" gives
\* "dining table"); without a keyword item_type is "furniture" and material
\* and color are None.
C22_TestEndpoint ==
    \A i \in Tests :
        LET h == history[i]
            query_lower == Lower(Strip(h.raw))
            record == DictGet(h.response, "parsed_query")
            item_type == FirstKeyword(query_lower, ItemTypeOrder, PyStr("furniture"))
        IN /\ h.status = 200
           /\ PyEq(DictGet(h.response, "cached"), PyBool("false"))
           /\ PyEq(DictGet(h.response, "query"), PyStr(Strip(h.raw)))
           /\ h.cache_reads = 0 /\ h.cache_writes = 0 /\ h.store_after = h.store_before
           /\ h.constructs = 0 /\ h.model_calls = 0 /\ h.llm_after = h.llm_before
           /\ Canonical(record)
           /\ PyEq(DictGet(record, "item_type"),
                   IF PyEq(item_type, PyStr("table")) /\ Contains(query_lower, "dining")
                   THEN PyStr("dining table") ELSE item_type)
           /\ PyEq(DictGet(record, "material"), FirstKeyword(query_lower, MaterialOrder, PyNone))
           /\ PyEq(DictGet(record, "color"), FirstKeyword(query_lower, ColorOrder, PyNone))
           /\ h.raw = "blue wooden dining table" =>
                 PyEq(record, Record3(PyStr("dining table"), PyStr("wooden"), PyStr("blue")))
           /\ h.raw = "red metal chair" =>
                 PyEq(record, Record3(PyStr("chair"), PyStr("metal"), PyStr("red")))
           /\ h.raw = "table and chair" => PyEq(DictGet(record, "item_type"), PyStr("table"))
           /\ h.raw = "" => PyEq(record, Record3(PyStr("furniture"), PyNone, PyNone))

\* /test answers a query whose /parse payload is in the cache: it computes
\* the record from the keywords and the entry stays as it is
C22_Witness ==
    \E i \in Tests :
        /\ history[i].raw = "red metal chair"
        /\ "query:red metal chair" \in DOMAIN history[i].store_before
        /\ history[i].llm_before = "loaded"
        /\ history[i].status = 200
        /\ PyEq(DictGet(history[i].response, "cached"), PyBool("false"))
        /\ PyEq(DictGet(history[i].response, "parsed_query"),
                Record3(PyStr("chair"), PyStr("metal"), PyStr("red")))
        /\ store = history[i].store_before

\* the calls of cache.set and cache.get made so far
Sets == {i \in 1..Len(history) : history[i].endpoint = "set"}

Gets == {i \in 1..Len(history) : history[i].endpoint = "get"}

\* the successful writes and the expiries of the key of query before step j
KeyEvents(query, j) ==
    {i \in 1..(j - 1) :
        \/ /\ history[i].endpoint = "set" /\ history[i].raw = query /\ history[i].returned
        \/ /\ history[i].endpoint = "expire" /\ history[i].raw = "query:" \o query}

\* C23: with the cache enabled and the store reachable, set(q, v) puts the
\* JSON text of v under "query:" + q with the expiry given, 3600 if none is
\* given, leaves the other keys alone and returns True; get(q) changes nothing
\* and returns a value equal to the v last set for q if that entry has not
\* expired, and None if q was never set or its entry has expired.
C23_CacheRoundTrip ==
    /\ \A i \in Sets :
          LET h == history[i]
              key == "query:" \o h.raw
          IN (redis_enabled /\ h.redis_ok) =>
                /\ h.returned
                /\ DOMAIN h.store_after = DOMAIN h.store_before \cup {key}
                /\ h.store_after[key].data = json_dumps(h.value)
                /\ h.store_after[key].ex \in {3600, 60}
                /\ h.store_after[key].ex = 3600 <=> h.expiry = 3600
                /\ \A other \in DOMAIN h.store_before \ {key} :
                      h.store_after[other] = h.store_before[other]
    /\ \A j \in Gets :
          LET h == history[j]
              events == KeyEvents(h.raw, j)
              last == CHOOSE i \in events : \A k \in events : k <= i
          IN (redis_enabled /\ h.redis_ok) =>
                /\ h.store_after = h.store_before
                /\ IF events # {} /\ history[last].endpoint = "set"
                   THEN PyEq(h.result, history[last].value)
                   ELSE h.result = PyNone

\* a value with quotes, a backslash and nested containers, set without an
\* expiry, is read back equal
C23_Witness ==
    \E i \in Sets, j \in Gets :
        /\ i < j /\ history[i].raw = history[j].raw
        /\ \E k \in Gets : k < i /\ history[k].raw = history[i].raw /\ history[k].result = PyNone
        /\ history[i].returned
        /\ DictHas(history[i].value, "note")
        /\ history[i].store_after["query:" \o history[i].raw].ex = 3600
        /\ PyEq(history[j].result, history[i].value)

\* C24: on a /parse miss the record comes from the text the model generated
\* for the query, also when generate returns the prompt followed by that
\* text: what the cascade extracts is what it extracts from the generated
\* continuation, never a JSON example of the prompt.
C24_ExtractsGeneratedText ==
    \A i \in Answered :
        LET h == history[i]
            prompt == CombinedPrompt(h.query)
            generated == SubSeq(h.text, Len(prompt) + 1, Len(h.text))
            scan == SearchBraces(generated)
        IN /\ SubSeq(h.text, 1, Len(prompt)) = prompt
           /\ scan.found => PyEq(h.process.extracted, json_loads(scan.group).v)
           /\ ~scan.found => ~PyEq(DictGet(h.process.parsed_data, "item_type"), PyStr("shelving unit"))

\* rec is what the override rules give for the lowercased query
Overridden(query_lower, rec) ==
    IF Contains(query_lower, "gold metal accent table") THEN PyEq(rec, Rule1Record)
    ELSE IF Contains(query_lower, "shelving unit") /\ Contains(query_lower, "glass")
    THEN /\ PyEq(DictGet(rec, "item_type"), PyStr("shelving unit"))
         /\ PyEq(DictGet(rec, "material"), PyStr("glass"))
    ELSE IF /\ Contains(query_lower, "amber") /\ Contains(query_lower, "glass")
            /\ Contains(query_lower, "cabinet")
    THEN PyEq(rec, Rule3Record)
    ELSE TRUE

\* C25: whatever /parse, /test and /debug requests have run, every payload
\* in the cache is the response of a /parse miss answered with 200, says
\* cached=false and holds a record of exactly the three canonical fields to
\* which the override rules of its key's query have been applied; so every
\* 200 response of /parse, from the cache or not, carries the values of the
\* rule its query matches.
C25_CacheHoldsOverriddenRecords ==
    /\ \A key \in DOMAIN store :
          LET payload == json_loads(store[key].data).v
              query == SubSeq(key, Len("query:") + 1, Len(key))
          IN /\ SubSeq(key, 1, Len("query:")) = "query:"
             /\ \E i \in Requests :
                   /\ ~history[i].hit /\ history[i].status = 200 /\ history[i].stored
                   /\ history[i].query = query
                   /\ store[key].data = json_dumps(history[i].response)
             /\ PyEq(DictGet(payload, "cached"), PyBool("false"))
             /\ Canonical(DictGet(payload, "parsed_query"))
             /\ Overridden(Lower(query), DictGet(payload, "parsed_query"))
    /\ \A i \in Requests :
          history[i].status = 200 =>
             /\ Canonical(DictGet(history[i].response, "parsed_query"))
             /\ Overridden(Lower(history[i].query), DictGet(history[i].response, "parsed_query"))
    /\ \A i \in 1..Len(history) :
          history[i].endpoint \in {"test", "debug"} => history[i].store_after = history[i].store_before

\* a query in capitals that matches the first rule is answered from the
\* cache with the rule's record, the model having said chair / red
C25_Witness ==
    \E i \in Requests :
        /\ history[i].hit /\ history[i].status = 200
        /\ history[i].raw = "Gold Metal Accent Table"
        /\ PyEq(DictGet(history[i].response, "parsed_query"), Rule1Record)
        /\ PyEq(DictGet(history[i].response, "cached"), PyBool("true"))
        /\ PyEq(DictGet(json_loads(store["query:Gold Metal Accent Table"].data).v, "cached"),
                PyBool("false"))

\* the /parse requests that got past the cache lookup without a hit
Misses == {i \in Requests : history[i].query # "" /\ ~history[i].hit}

\* C26: a miss that finds the handle uninitialized tries to build the model;
\* if that fails the handle stays uninitialized and the request ends with 500
\* "Failed to initialize language model: ..." with no model call and no cache
\* write, so the next miss tries again.  Once the handle is set no request
\* builds the model again and nothing resets the handle.
C26_ConstructionRetriedUntilSuccess ==
    /\ \A i \in Misses :
          LET h == history[i]
              prefix == "Failed to initialize language model: "
          IN /\ h.llm_before = "None" => h.constructs = 1
             /\ (h.constructs = 1 /\ h.llm_after = "None") =>
                   /\ h.status = 500
                   /\ SubSeq(h.detail, 1, Len(prefix)) = prefix
                   /\ h.model_calls = 0 /\ h.cache_writes = 0
                   /\ h.store_after = h.store_before
             /\ (h.constructs = 1 /\ h.llm_after = "loaded") => h.status # 500 \/ h.model_calls = 1
    /\ \A i \in 1..Len(history) :
          /\ history[i].llm_before = "loaded" =>
                history[i].constructs = 0 /\ history[i].llm_after = "loaded"
          /\ i < Len(history) => history[i + 1].llm_before = history[i].llm_after
    /\ Len(history) > 0 => llm = history[Len(history)].llm_after

\* a construction fails, and the next miss builds the model and is answered
C26_Witness ==
    \E i, j \in Misses :
        /\ j = i + 1
        /\ history[i].constructs = 1 /\ history[i].llm_after = "None" /\ history[i].status = 500
        /\ history[j].llm_before = "None" /\ history[j].constructs = 1
        /\ history[j].llm_after = "loaded" /\ history[j].status = 200

\* the dispatches of non-excluded paths, and the request_context blocks
Dispatched ==
    {r \in DOMAIN dispatches : dispatches[r].kind = "dispatch" /\ ~dispatches[r].excluded}

Blocks == {r \in DOMAIN dispatches : dispatches[r].kind = "block"}

\* C27: when dispatch for a non-excluded path has finished, the handler
\* having returned or raised, and when a request_context block has been left,
\* at its end or by an exception, the context it leaves behind has no
\* request_id, no session_id and no user_id.
C27_ContextCleared ==
    \A r \in Dispatched \cup Blocks :
        dispatches[r].pc = "done" =>
           /\ dispatches[r].outcome \in {"returned", "raised"}
           /\ dispatches[r].left = NoContext

\* a dispatch whose handler raised ends while a block that set a session and
\* a user is still open, and leaves nothing in the context
C27_Witness ==
    \E r \in Dispatched, b \in Blocks :
        /\ dispatches[r].pc = "done" /\ dispatches[r].outcome = "raised"
        /\ dispatches[b].pc = "in_block"
        /\ \E k \in 1..Len(dispatches[r].seen) : dispatches[r].seen[k] = PyStr("test-request-123")
        /\ context = NoContext

\* C28: two requests in flight at once on one thread: whenever a request logs,
\* the request_id in the context is its own, whatever the other request has
\* done in the meantime, finishing included.
C28_OwnRequestId ==
    \A r \in Dispatched :
        Blocks = {} =>
        \A k \in 1..Len(dispatches[r].seen) : dispatches[r].seen[k] = dispatches[r].request_id

\* the calls of sanitize_data made so far
Sanitized == {i \in 1..Len(history) : history[i].endpoint = "sanitize"}

\* key contains one of the names, letter case aside
HasSensitiveName(key, names) == \E name \in names : Contains(Lower(key), Lower(name))

\* out has the shape of data, "[REDACTED]" under every key with a sensitive
\* name and the values of data everywhere else
RECURSIVE RedactedCopy(_, _, _)
RedactedCopy(out, data, names) ==
    CASE data.t = "dict" ->
           /\ out.t = "dict" /\ Len(out.v) = Len(data.v)
           /\ \A i \in 1..Len(data.v) :
                 /\ out.v[i].k = data.v[i].k
                 /\ IF HasSensitiveName(data.v[i].k, names)
                    THEN PyEq(out.v[i].v, PyStr("[REDACTED]"))
                    ELSE RedactedCopy(out.v[i].v, data.v[i].v, names)
      [] data.t = "list" ->
           /\ out.t = "list" /\ Len(out.v) = Len(data.v)
           /\ \A i \in 1..Len(data.v) : RedactedCopy(out.v[i], data.v[i], names)
      [] OTHER -> PyEq(out, data)

\* C29: sanitize_data returns a structure shaped like its input in which,
\* at any depth of dictionaries and lists, the value under every key that
\* contains a sensitive name, letter case aside, is "[REDACTED]" and every
\* other value that is no container is the input's; the input is as it was.
C29_SanitizeRedacts ==
    \A i \in Sanitized :
        LET h == history[i] IN
        /\ RedactedCopy(h.result, h.data,
                        IF h.sensitive_keys.given THEN h.sensitive_keys.keys
                        ELSE {"password", "token", "secret", "key", "authorization",
                              "credit_card", "ssn", "api_key"})
        /\ h.data_after = h.data

\* the data of the logging test: the secret of an item in a list inside a
\* nested dictionary is redacted, its name is kept
C29_Witness ==
    \E i \in Sanitized :
        LET h == history[i]
            items == DictGet(DictGet(h.result, "preferences"), "items")
        IN /\ ~h.sensitive_keys.given
           /\ h.data.t = "dict" /\ DictHas(h.data, "preferences")
           /\ PyEq(DictGet(h.result, "password"), PyStr("[REDACTED]"))
           /\ PyEq(DictGet(h.result, "username"), PyStr("testuser"))
           /\ PyEq(DictGet(items.v[1], "secret"), PyStr("[REDACTED]"))
           /\ PyEq(DictGet(items.v[1], "name"), PyStr("item1"))
           /\ PyEq(DictGet(DictGet(DictGet(h.data, "preferences"), "items").v[1], "secret"),
                   PyStr("hidden-value"))

\* every one of the max_retries attempts on the requested port has failed
\* with "Address already in use"
RequestedPortBusy ==
    /\ server.max_retries >= 1
    /\ Len(server.tries) >= server.max_retries
    /\ \A k \in 1..server.max_retries :
          server.tries[k] = [port |-> server.original_port, outcome |-> "address_in_use"]

\* C30: when every attempt on the requested port has failed with "Address
\* already in use", start_server goes on to the port after it and does not
\* end before it has tried to start the server there; it ends with exit
\* status 1 only when both ports have been tried.
C30_AlternatePortTried ==
    (server.pc \in {"returned", "exited"} /\ RequestedPortBusy) =>
       /\ \E k \in 1..Len(server.tries) : server.tries[k].port = server.original_port + 1
       /\ server.pc = "exited" => server.status = 1

====
